---- MODULE Spec2Model ----
(***************************************************************************)
(* BizHealth.ai Phase 4 + IDM compilation engine.                          *)
(*                                                                         *)
(* scripts/idm_models.py          domain tables and score helpers          *)
(* scripts/phase4-idm-compiler.py Phase4IDMCompiler                        *)
(*                                                                         *)
(* Scores are kept in tenths of a point (60.0 is 600), so that one-decimal *)
(* values such as 79.9 and the result of round(x, 1) are integers.         *)
(* RoundHalfEven rounds the exact quotient, ties to even: what Python's    *)
(* round(x, 1) returns whenever the float quotient is exact (every tie     *)
(* x.25 / x.75 is); a tie that is not a binary fraction is decided by the  *)
(* float error, which is not modelled.                                     *)
(***************************************************************************)
EXTENDS Integers, Sequences, FiniteSets, TLC

VARIABLES
    files,           \* the files behind the five paths given to the compiler
    phase1,          \* self.phase1: the loaded phase 1 document
    phase2,          \* self.phase2: the loaded phase 2 document
    phase3,          \* self.phase3: the loaded phase 3 document
    phase1_5,        \* self.phase1_5: the loaded Phase 1.5 document
    webhook_data,    \* self.webhook_data: the loaded webhook payload
    pc,              \* position of the run: "new", "constructed", "failed"
    using_phase1_5,  \* self.using_phase1_5
    category_scores, \* self.category_scores
    compiled,        \* the IDMs returned by compile_idm so far, oldest first
    helper,          \* the last call of a helper of idm_models.py and its result
    main             \* main(): validation_issues and phase4_output, <<>> until assigned

vars == <<files, phase1, phase2, phase3, phase1_5, webhook_data, pc, using_phase1_5,
          category_scores, compiled, helper, main>>

-----------------------------------------------------------------------------
(* Units and small utilities *)

Tenths(n) == n * 10

MaxScore == Tenths(100)

RECURSIVE SumSeq(_)
SumSeq(s) == IF s = <<>> THEN 0 ELSE Head(s) + SumSeq(Tail(s))

RECURSIVE SelectIdx(_, _, _)
\* the elements of s that satisfy Test, in order (a list comprehension)
SelectIdx(s, Test(_), i) ==
    IF i > Len(s) THEN <<>>
    ELSE (IF Test(s[i]) THEN <<s[i]>> ELSE <<>>) \o SelectIdx(s, Test, i + 1)

Filter(s, Test(_)) == SelectIdx(s, Test, 1)

MapSeq(s, F(_)) == [i \in 1..Len(s) |-> F(s[i])]

RECURSIVE Flatten(_)
Flatten(ss) == IF ss = <<>> THEN <<>> ELSE Head(ss) \o Flatten(Tail(ss))

Range(s) == {s[i] : i \in 1..Len(s)}

Prefix(s, n) == SubSeq(s, 1, IF Len(s) < n THEN Len(s) ELSE n)

SeqsUpTo(S, n) == UNION {[1..k -> S] : k \in 0..n}

\* n / d rounded to the nearest integer, ties to even (n >= 0, d > 0)
RoundHalfEven(n, d) ==
    LET q == n \div d
        r == n % d
    IN  IF 2 * r > d THEN q + 1
        ELSE IF 2 * r < d THEN q
        ELSE IF q % 2 = 0 THEN q ELSE q + 1

\* f"{n:03d}"
Pad3(n) ==
    IF n < 10 THEN "00" \o ToString(n)
    ELSE IF n < 100 THEN "0" \o ToString(n)
    ELSE ToString(n)

-----------------------------------------------------------------------------
(* idm_models.py: enums and reference tables *)

ChapterCode == <<"GE", "PH", "PL", "RS">>

DimensionCode ==
    <<"STR", "SAL", "MKT", "CXP", "OPS", "FIN", "HRS", "LDG", "TIN", "IDS", "RMS", "CMP">>

DimensionCodes == Range(DimensionCode)

CHAPTER_NAMES ==
    [GE |-> "Growth Engine", PH |-> "Performance & Health",
     PL |-> "People & Leadership", RS |-> "Resilience & Safeguards"]

DIMENSION_METADATA ==
    [STR |-> [name |-> "Strategy", chapter |-> "GE"],
     SAL |-> [name |-> "Sales", chapter |-> "GE"],
     MKT |-> [name |-> "Marketing", chapter |-> "GE"],
     CXP |-> [name |-> "Customer Experience", chapter |-> "GE"],
     OPS |-> [name |-> "Operations", chapter |-> "PH"],
     FIN |-> [name |-> "Financials", chapter |-> "PH"],
     HRS |-> [name |-> "Human Resources", chapter |-> "PL"],
     LDG |-> [name |-> "Leadership & Governance", chapter |-> "PL"],
     TIN |-> [name |-> "Technology & Innovation", chapter |-> "RS"],
     IDS |-> [name |-> "IT, Data & Systems", chapter |-> "RS"],
     RMS |-> [name |-> "Risk Management & Sustainability", chapter |-> "RS"],
     CMP |-> [name |-> "Compliance", chapter |-> "RS"]]

\* SUB_INDICATOR_DEFINITIONS[dimension_code]: five entries <code>_001 .. <code>_005
SubIndicatorCount == 5

SUB_INDICATOR_DEFINITIONS(dimension_code) ==
    [i \in 1..SubIndicatorCount |-> [id |-> dimension_code \o "_" \o Pad3(i)]]

-----------------------------------------------------------------------------
(* idm_models.py: helper functions *)

get_score_band_strict(score) ==
    IF score > Tenths(80) THEN "Excellence"
    ELSE IF score > Tenths(60) THEN "Proficiency"
    ELSE IF score > Tenths(40) THEN "Attention"
    ELSE "Critical"

get_score_band(score) ==
    IF score >= Tenths(80) THEN "Excellence"
    ELSE IF score >= Tenths(60) THEN "Proficiency"
    ELSE IF score >= Tenths(40) THEN "Attention"
    ELSE "Critical"

\* get_score_band applied to the unrounded quotient total / k
get_score_band_of_quotient(total, k) ==
    IF total >= Tenths(80) * k THEN "Excellence"
    ELSE IF total >= Tenths(60) * k THEN "Proficiency"
    ELSE IF total >= Tenths(40) * k THEN "Attention"
    ELSE "Critical"

get_health_descriptor_strict(score) ==
    IF score > Tenths(85) THEN "Excellent Health"
    ELSE IF score > Tenths(75) THEN "Good Health"
    ELSE IF score > Tenths(65) THEN "Fair Health"
    ELSE IF score > Tenths(50) THEN "Needs Improvement"
    ELSE "Critical Condition"

get_health_descriptor(score) ==
    IF score >= Tenths(85) THEN "Excellent Health"
    ELSE IF score >= Tenths(75) THEN "Good Health"
    ELSE IF score >= Tenths(65) THEN "Fair Health"
    ELSE IF score >= Tenths(50) THEN "Needs Improvement"
    ELSE "Critical Condition"

\* An Optional[float] is <<>> for None and <<v>> for a value.
determine_trajectory_inclusive(current_score, previous_score) ==
    IF previous_score = <<>> THEN "Flat"
    ELSE LET delta == current_score - previous_score[1]
         IN  IF delta >= Tenths(5) THEN "Improving"
             ELSE IF delta <= -Tenths(5) THEN "Declining"
             ELSE "Flat"

determine_trajectory(current_score, previous_score) ==
    IF previous_score = <<>> THEN "Flat"
    ELSE LET delta == current_score - previous_score[1]
         IN  IF delta > Tenths(5) THEN "Improving"
             ELSE IF delta < -Tenths(5) THEN "Declining"
             ELSE "Flat"

calculate_chapter_score(dimensions, chapter_code) ==
    LET chapter_dims == Filter(dimensions, LAMBDA d : d.chapter_code = chapter_code)
    IN  IF chapter_dims = <<>> THEN 0
        ELSE RoundHalfEven(SumSeq(MapSeq(chapter_dims, LAMBDA d : d.score_overall)),
                           Len(chapter_dims))

-----------------------------------------------------------------------------
(* Documents                                                               *)
(*                                                                         *)
(* a file      [status, content]: status "ok" (content is what json.load  *)
(*              gives), "missing", "invalid" (not JSON) or "absent" (no     *)
(*              path was given: Phase 1.5 and webhook only)                 *)
(* phase1       [company_profile_id : <<>> or <<id>>]                      *)
(* phase2, 3    [loaded : BOOLEAN], FALSE for {}; nothing else of them is   *)
(*              read by the compiler                                        *)
(* phase1_5     [hasCategoryAnalyses, categoryAnalyses : Seq(category),    *)
(*               overallSummary : <<>> or <<[trajectory, topOpportunities]>>]*)
(*              a file that is missing or does not parse loads as {} :     *)
(*              no key at all                                              *)
(* category     [categoryCode, categoryName, overallScore, strengths,      *)
(*               weaknesses, quickWins, categoryRisks]                     *)
(* webhook_data a function from some category keys to the category's       *)
(*              responses, a sequence of [key, value] in dict order        *)
(* A JSON value is [kind |-> "num", n |-> integer], [kind |-> "str",       *)
(* s |-> string], [kind |-> "bool"] for true and false, which Python loads  *)
(* as the ints 1 and 0, [kind |-> "null"] for null, or [kind |-> "missing"] *)
(* for a key that is absent.                                               *)

Num(n) == [kind |-> "num", n |-> n, s |-> ""]
Str(s) == [kind |-> "str", n |-> 0, s |-> s]
Bool(b) == [kind |-> "bool", n |-> IF b THEN 1 ELSE 0, s |-> ""]
Null == [kind |-> "null", n |-> 0, s |-> ""]
Missing == [kind |-> "missing", n |-> 0, s |-> ""]

\* isinstance(value, (int, float)): bool is a subclass of int
IsNumber(value) == value.kind \in {"num", "bool"}

EmptyDoc == [hasCategoryAnalyses |-> FALSE, categoryAnalyses |-> <<>>, overallSummary |-> <<>>]

NoWebhook == [k \in {} |-> <<>>]

\* the empty dict {} as a document of each kind
EmptyObject(kind) ==
    CASE kind = "phase1" -> [company_profile_id |-> <<>>]
      [] kind = "phase1_5" -> EmptyDoc
      [] kind = "webhook" -> NoWebhook
      [] OTHER -> [loaded |-> FALSE]

File(status, content) == [status |-> status, content |-> content]

\* a loader without the except clause: whatever could be read of the file
load_json_unguarded(file, kind) == file.content

\* _load_json, and the `if path else {}` of __init__ for a path that was not given
load_json(file, kind) == IF file.status = "ok" THEN file.content ELSE EmptyObject(kind)

\* bool(d) of a loaded dict
Truthy(doc) == doc.hasCategoryAnalyses \/ doc.overallSummary # <<>>

\* str.lower() on the labels the documents carry
Lower(s) ==
    CASE s = "Critical" -> "critical"
      [] s = "CRITICAL" -> "critical"
      [] s = "High" -> "high"
      [] s = "HIGH" -> "high"
      [] s = "Medium" -> "medium"
      [] s = "Low" -> "low"
      [] OTHER -> s

\* d.get(key, default).lower() if the value is a str, else default
LabelOf(v, default) == IF v.kind = "str" THEN Lower(v.s) ELSE default

-----------------------------------------------------------------------------
(* Phase4IDMCompiler: category score extraction *)

\* the condition every builder tests: self.phase1_5 and 'categoryAnalyses' in self.phase1_5
RichPath(doc) == Truthy(doc) /\ doc.hasCategoryAnalyses

\* __init__: bool(self.phase1_5 and self.phase1_5.get('categoryAnalyses'))
UsingPhase15(doc) == Truthy(doc) /\ doc.hasCategoryAnalyses /\ doc.categoryAnalyses # <<>>

\* category_mapping / category_key_mapping, in dict order
category_mapping ==
    << [key |-> "strategy", dim_code |-> "STR", name |-> "Strategy"],
       [key |-> "sales", dim_code |-> "SAL", name |-> "Sales"],
       [key |-> "marketing", dim_code |-> "MKT", name |-> "Marketing"],
       [key |-> "customer_experience", dim_code |-> "CXP", name |-> "Customer Experience"],
       [key |-> "operations", dim_code |-> "OPS", name |-> "Operations"],
       [key |-> "financials", dim_code |-> "FIN", name |-> "Financials"],
       [key |-> "human_resources", dim_code |-> "HRS", name |-> "Human Resources"],
       [key |-> "leadership", dim_code |-> "LDG", name |-> "Leadership & Governance"],
       [key |-> "technology", dim_code |-> "TIN", name |-> "Technology & Innovation"],
       [key |-> "it_infrastructure", dim_code |-> "IDS", name |-> "IT, Data & Systems"],
       [key |-> "risk_management", dim_code |-> "RMS", name |-> "Risk Management"],
       [key |-> "compliance", dim_code |-> "CMP", name |-> "Compliance"] >>

CategoryKeys == {category_mapping[i].key : i \in 1..Len(category_mapping)}

\* self.webhook_data.get(category_key, {})
CategoryData(webhook, category_key) ==
    IF category_key \in DOMAIN webhook THEN webhook[category_key] ELSE <<>>

normalize_dim_code(dim_code) == IF dim_code = "ITD" THEN "IDS" ELSE dim_code

DefaultCategoryScore == Tenths(60)

\* the (score, doubled weight) a response contributes, <<>> when it contributes nothing
Contribution(value) ==
    IF ~IsNumber(value) THEN <<>>
    ELSE IF 1 <= value.n /\ value.n <= 5 THEN <<[score |-> (value.n - 1) * 250, weight |-> 2]>>
    ELSE IF 0 <= value.n /\ value.n <= 100 THEN <<[score |-> Tenths(value.n), weight |-> 1]>>
    ELSE <<>>

calculate_category_score(category_data) ==
    IF category_data = <<>> THEN DefaultCategoryScore
    ELSE LET parts == Flatten(MapSeq(category_data, LAMBDA r : Contribution(r.value)))
             total_weight == SumSeq(MapSeq(parts, LAMBDA c : c.weight))
             weighted_sum == SumSeq(MapSeq(parts, LAMBDA c : c.score * c.weight))
         IN  IF parts # <<>>
             THEN (IF total_weight > 0 THEN RoundHalfEven(weighted_sum, total_weight)
                   ELSE DefaultCategoryScore)
             ELSE DefaultCategoryScore

\* 'growth' in key.lower(): response keys are lower case, the flag is carried by the key
IsGrowthKey(key) == key \in {"growth_rate", "revenue_growth"}

RECURSIVE calculate_trend_from_data(_)
calculate_trend_from_data(category_data) ==
    IF category_data = <<>> THEN "stable"
    ELSE LET r == Head(category_data)
         IN  IF IsGrowthKey(r.key) /\ IsNumber(r.value) /\ r.value.n > 15 THEN "improving"
             ELSE IF IsGrowthKey(r.key) /\ IsNumber(r.value) /\ r.value.n < -5 THEN "declining"
             ELSE calculate_trend_from_data(Tail(category_data))

CategoryScore(name, dimension_code, score, trend) ==
    [name |-> name, dimension_code |-> dimension_code, score |-> score, trend |-> trend]

get_default_scores ==
    << CategoryScore("Strategy", "STR", Tenths(68), "stable"),
       CategoryScore("Sales", "SAL", Tenths(72), "stable"),
       CategoryScore("Marketing", "MKT", Tenths(42), "declining"),
       CategoryScore("Customer Experience", "CXP", Tenths(85), "stable"),
       CategoryScore("Operations", "OPS", Tenths(78), "stable"),
       CategoryScore("Financials", "FIN", Tenths(70), "stable"),
       CategoryScore("Human Resources", "HRS", Tenths(55), "declining"),
       CategoryScore("Leadership & Governance", "LDG", Tenths(48), "declining"),
       CategoryScore("Technology & Innovation", "TIN", Tenths(75), "improving"),
       CategoryScore("IT, Data & Systems", "IDS", Tenths(90), "stable"),
       CategoryScore("Risk Management", "RMS", Tenths(45), "declining"),
       CategoryScore("Compliance", "CMP", Tenths(72), "stable") >>

\* trend_map.get(overallSummary.trajectory, 'stable')
RichTrend(doc) ==
    LET trajectory == IF doc.overallSummary = <<>> THEN "Stable"
                      ELSE doc.overallSummary[1].trajectory
    IN  CASE trajectory = "Declining" -> "declining"
          [] trajectory = "Stable" -> "stable"
          [] trajectory = "Improving" -> "improving"
          [] OTHER -> "stable"

ExtractRich(doc) ==
    MapSeq(doc.categoryAnalyses,
           LAMBDA cat : CategoryScore(cat.categoryName, normalize_dim_code(cat.categoryCode),
                                      cat.overallScore, RichTrend(doc)))

ExtractWebhook(webhook) ==
    MapSeq(category_mapping,
           LAMBDA m : CategoryScore(m.name, m.dim_code,
                                    calculate_category_score(CategoryData(webhook, m.key)),
                                    calculate_trend_from_data(CategoryData(webhook, m.key))))

extract_category_scores_defaults_when_no_data(doc, webhook) ==
    IF RichPath(doc) THEN ExtractRich(doc)
    ELSE IF DOMAIN webhook = {} THEN get_default_scores
    ELSE ExtractWebhook(webhook)

extract_category_scores(doc, webhook) ==
    IF RichPath(doc) THEN ExtractRich(doc)
    ELSE LET categories == ExtractWebhook(webhook)
         IN  IF categories # <<>> THEN categories ELSE get_default_scores

-----------------------------------------------------------------------------
(* Phase4IDMCompiler: questions, dimensions, chapters *)

\* the responses of a category that become questions: not None, not a dict or list
QuestionValues(category_data) ==
    Filter(category_data, LAMBDA r : r.value.kind \in {"num", "str", "bool"})

NormalizedScore(value) ==
    IF ~IsNumber(value) THEN <<>>
    ELSE IF 1 <= value.n /\ value.n <= 5 THEN <<(value.n - 1) * 250>>
    ELSE IF 0 <= value.n /\ value.n <= 100 THEN <<Tenths(value.n)>>
    ELSE <<>>

build_questions(webhook) ==
    Flatten(MapSeq(category_mapping, LAMBDA m :
        LET answered == QuestionValues(CategoryData(webhook, m.key))
        IN  [question_num \in 1..Len(answered) |->
                [question_id |-> m.key \o "_q" \o ToString(question_num),
                 dimension_code |-> m.dim_code,
                 sub_indicator_id |-> m.dim_code \o "_" \o Pad3(question_num),
                 raw_response |-> answered[question_num].value,
                 normalized_score |-> NormalizedScore(answered[question_num].value)]]))

Clamp(lo, hi, x) == IF x < lo THEN lo ELSE IF x > hi THEN hi ELSE x

\* the scores varied around the dimension score and not clamped
build_sub_indicators_unclamped(dimension_code, dimension_score) ==
    LET definitions == SUB_INDICATOR_DEFINITIONS(dimension_code)
    IN  [k \in 1..Len(definitions) |->
            LET variation == Tenths(((k - 1) - 2) * 5)
                score == dimension_score + variation
            IN  [id |-> definitions[k].id, dimension_code |-> dimension_code,
                 score |-> score, score_band |-> get_score_band(score)]]

build_sub_indicators(dimension_code, dimension_score) ==
    LET definitions == SUB_INDICATOR_DEFINITIONS(dimension_code)
    IN  [k \in 1..Len(definitions) |->
            LET variation == Tenths(((k - 1) - 2) * 5)
                score == Clamp(0, MaxScore, dimension_score + variation)
            IN  [id |-> definitions[k].id, dimension_code |-> dimension_code,
                 score |-> score, score_band |-> get_score_band(score)]]

\* DimensionCode(cat.dimension_code) raises ValueError for a code outside the enum, and
\* Dimension(score_overall=...) raises for a score outside [0, 100]
DimensionsRaise(scores) ==
    \E i \in 1..Len(scores) :
        \/ scores[i].dimension_code \notin DimensionCodes
        \/ scores[i].score < 0
        \/ scores[i].score > MaxScore

build_dimensions(scores) ==
    MapSeq(scores, LAMBDA cat :
        [dimension_code |-> cat.dimension_code,
         chapter_code |-> DIMENSION_METADATA[cat.dimension_code].chapter,
         name |-> DIMENSION_METADATA[cat.dimension_code].name,
         score_overall |-> cat.score,
         score_band |-> get_score_band(cat.score),
         sub_indicators |-> build_sub_indicators(cat.dimension_code, cat.score)])

EmptyChapterScore == Tenths(60)

build_chapters(dimensions) ==
    MapSeq(ChapterCode, LAMBDA chapter_code :
        LET chapter_dims == Filter(dimensions, LAMBDA d : d.chapter_code = chapter_code)
            \* avg_score is total / k, unrounded
            total == IF chapter_dims # <<>>
                     THEN SumSeq(MapSeq(chapter_dims, LAMBDA d : d.score_overall))
                     ELSE EmptyChapterScore
            k == IF chapter_dims # <<>> THEN Len(chapter_dims) ELSE 1
        IN  [chapter_code |-> chapter_code,
             name |-> CHAPTER_NAMES[chapter_code],
             score_overall |-> RoundHalfEven(total, k),
             score_band |-> get_score_band_of_quotient(total, k)])

-----------------------------------------------------------------------------
(* Phase4IDMCompiler: findings *)

Finding(id, dimension_code, type, severity, narrative) ==
    [id |-> id, dimension_code |-> dimension_code, type |-> type,
     severity |-> severity, narrative |-> narrative]

\* severity_map.get(severity.lower() if isinstance(severity, str) else 'medium', 'Medium')
IdmSeverity(severity) ==
    LET label == LabelOf(IF severity.kind = "missing" THEN Str("medium") ELSE severity, "medium")
    IN  CASE label = "critical" -> "Critical"
          [] label = "high" -> "High"
          [] label = "medium" -> "Medium"
          [] label = "low" -> "Low"
          [] OTHER -> "Medium"

\* severity in ['critical', 'high'] on weakness.get('severity', 'medium'), not lowered
WeaknessType(severity) ==
    IF severity.kind = "str" /\ severity.s \in {"critical", "high"} THEN "risk" ELSE "gap"

\* description, plus the root cause when weakness.get('rootCause') is truthy
WeaknessNarrative(weakness) ==
    IF weakness.rootCause # "" THEN weakness.description \o " Root cause: " \o weakness.rootCause
    ELSE weakness.description

\* the findings of one category, numbered from first_id
CategoryFindings(cat, first_id) ==
    LET dim_code == normalize_dim_code(cat.categoryCode)
        ns == Len(cat.strengths)
    IN  [i \in 1..ns |->
            Finding("finding-" \o Pad3(first_id + i - 1), dim_code, "strength", "Low",
                    cat.strengths[i].description)]
        \o
        [i \in 1..Len(cat.weaknesses) |->
            Finding("finding-" \o Pad3(first_id + ns + i - 1), dim_code,
                    WeaknessType(cat.weaknesses[i].severity),
                    IdmSeverity(cat.weaknesses[i].severity),
                    WeaknessNarrative(cat.weaknesses[i]))]

RECURSIVE RichFindings(_, _)
RichFindings(cats, first_id) ==
    IF cats = <<>> THEN <<>>
    ELSE LET here == CategoryFindings(Head(cats), first_id)
         IN  here \o RichFindings(Tail(cats), first_id + Len(here))

\* the tiers with their lower limits excluded
FallbackFindingStrict(dim) ==
    IF dim.score_overall > Tenths(80)
    THEN <<Finding("finding-strength-" \o dim.dimension_code, dim.dimension_code,
                   "strength", "Low", dim.name \o " demonstrates strong performance")>>
    ELSE IF dim.score_overall > Tenths(40) /\ dim.score_overall <= Tenths(60)
    THEN <<Finding("finding-gap-" \o dim.dimension_code, dim.dimension_code,
                   "gap", "Medium", dim.name \o " shows moderate performance")>>
    ELSE IF dim.score_overall <= Tenths(40)
    THEN <<Finding("finding-risk-" \o dim.dimension_code, dim.dimension_code,
                   "risk", "Critical", dim.name \o " is at critical levels")>>
    ELSE <<>>

FallbackFinding(dim) ==
    IF dim.score_overall >= Tenths(80)
    THEN <<Finding("finding-strength-" \o dim.dimension_code, dim.dimension_code,
                   "strength", "Low", dim.name \o " demonstrates strong performance")>>
    ELSE IF dim.score_overall >= Tenths(40) /\ dim.score_overall < Tenths(60)
    THEN <<Finding("finding-gap-" \o dim.dimension_code, dim.dimension_code,
                   "gap", "Medium", dim.name \o " shows moderate performance")>>
    ELSE IF dim.score_overall < Tenths(40)
    THEN <<Finding("finding-risk-" \o dim.dimension_code, dim.dimension_code,
                   "risk", "Critical", dim.name \o " is at critical levels")>>
    ELSE <<>>

build_findings(doc, dimensions) ==
    IF RichPath(doc) THEN RichFindings(doc.categoryAnalyses, 1)
    ELSE Flatten(MapSeq(dimensions, FallbackFinding))

-----------------------------------------------------------------------------
(* Phase4IDMCompiler: recommendations *)

\* A sort key is a fraction [num, den] with den > 0.
KeyLess(k1, k2) == k1.num * k2.den < k2.num * k1.den

RECURSIVE InsertBefore(_, _, _)
\* x placed in the sorted t before the first element whose key is greater
InsertBefore(x, Key(_), t) ==
    IF t = <<>> THEN <<x>>
    ELSE IF KeyLess(Key(x), Key(Head(t))) THEN <<x>> \o t
    ELSE <<Head(t)>> \o InsertBefore(x, Key, Tail(t))

RECURSIVE StableSort(_, _)
\* sorted(s, key=Key): stable, equal keys keep their order
StableSort(Key(_), s) ==
    IF s = <<>> THEN <<>>
    ELSE InsertBefore(s[Len(s)], Key, StableSort(Key, SubSeq(s, 1, Len(s) - 1)))

IsGapOrRisk(f) == f.type \in {"gap", "risk"}

\* [f.id for f in findings if f.dimension_code == dim_code and f.type in [GAP, RISK]]
LinkedFindingIds(findings, dim_code) ==
    MapSeq(Filter(findings, LAMBDA f : f.dimension_code = dim_code /\ IsGapOrRisk(f)),
           LAMBDA f : f.id)

Recommendation(id, dimension_code, linked_finding_ids, priority_rank, impact_score, effort_score, horizon) ==
    [id |-> id, dimension_code |-> dimension_code, linked_finding_ids |-> linked_finding_ids,
     priority_rank |-> priority_rank, impact_score |-> impact_score,
     effort_score |-> effort_score, horizon |-> horizon]

HorizonOfEffort(effort) ==
    CASE effort = "low" -> "90_days"
      [] effort = "medium" -> "12_months"
      [] effort = "high" -> "24_months_plus"
      [] OTHER -> "90_days"

ImpactScoreOf(impact) ==
    CASE impact = "high" -> Tenths(85)
      [] impact = "medium" -> Tenths(65)
      [] impact = "low" -> Tenths(45)
      [] OTHER -> Tenths(65)

EffortScoreOf(effort) ==
    CASE effort = "low" -> Tenths(30)
      [] effort = "medium" -> Tenths(55)
      [] effort = "high" -> Tenths(80)
      [] OTHER -> Tenths(55)

\* the recommendations of one category's quickWins, ranked from first_rank
CategoryRecommendations(cat, findings, first_rank) ==
    LET dim_code == normalize_dim_code(cat.categoryCode)
    IN  [i \in 1..Len(cat.quickWins) |->
            LET effort == LabelOf(cat.quickWins[i].effort, "medium")
                impact == LabelOf(cat.quickWins[i].impact, "medium")
            IN  Recommendation("rec-" \o Pad3(first_rank + i - 1), dim_code,
                               Prefix(LinkedFindingIds(findings, dim_code), 3),
                               first_rank + i - 1, ImpactScoreOf(impact),
                               EffortScoreOf(effort), HorizonOfEffort(effort))]

RECURSIVE QuickWinRecommendations(_, _, _)
QuickWinRecommendations(cats, findings, first_rank) ==
    IF cats = <<>> THEN <<>>
    ELSE LET here == CategoryRecommendations(Head(cats), findings, first_rank)
         IN  here \o QuickWinRecommendations(Tail(cats), findings, first_rank + Len(here))

\* overallSummary.topOpportunities[:5], when the list is there and not empty
OpportunityRecommendations(doc, first_rank) ==
    LET opportunities == IF doc.overallSummary = <<>> THEN <<>>
                         ELSE Prefix(doc.overallSummary[1].topOpportunities, 5)
    IN  [i \in 1..Len(opportunities) |->
            Recommendation("rec-" \o Pad3(first_rank + i - 1), "STR", <<>>,
                           first_rank + i - 1, Tenths(80), Tenths(60), "12_months")]

RichRecommendations(doc, findings) ==
    LET from_quick_wins == QuickWinRecommendations(doc.categoryAnalyses, findings, 1)
    IN  from_quick_wins \o OpportunityRecommendations(doc, Len(from_quick_wins) + 1)

FallbackHorizon(score) ==
    IF score < Tenths(40) THEN "90_days"
    ELSE IF score < Tenths(60) THEN "12_months"
    ELSE "24_months_plus"

RECURSIVE FallbackRecommendationsGapLinks(_, _, _)
FallbackRecommendationsGapLinks(sorted_dims, findings, priority_rank) ==
    IF sorted_dims = <<>> THEN <<>>
    ELSE LET dim == Head(sorted_dims)
             linked_findings == LinkedFindingIds(findings, dim.dimension_code)
         IN  IF dim.score_overall >= Tenths(80) \/ linked_findings = <<>>
             THEN FallbackRecommendationsGapLinks(Tail(sorted_dims), findings, priority_rank)
             ELSE <<Recommendation(
                        "rec-" \o dim.dimension_code \o "-" \o ToString(priority_rank),
                        dim.dimension_code, <<"finding-gap-" \o dim.dimension_code>>,
                        priority_rank,
                        MaxScore - dim.score_overall,
                        IF dim.score_overall < Tenths(40) THEN Tenths(70) ELSE Tenths(50),
                        FallbackHorizon(dim.score_overall))>>
                  \o FallbackRecommendationsGapLinks(Tail(sorted_dims), findings,
                                                     priority_rank + 1)

RECURSIVE FallbackRecommendations(_, _, _)
FallbackRecommendations(sorted_dims, findings, priority_rank) ==
    IF sorted_dims = <<>> THEN <<>>
    ELSE LET dim == Head(sorted_dims)
             linked_findings == LinkedFindingIds(findings, dim.dimension_code)
         IN  IF dim.score_overall >= Tenths(80) \/ linked_findings = <<>>
             THEN FallbackRecommendations(Tail(sorted_dims), findings, priority_rank)
             ELSE <<Recommendation(
                        "rec-" \o dim.dimension_code \o "-" \o ToString(priority_rank),
                        dim.dimension_code, linked_findings, priority_rank,
                        MaxScore - dim.score_overall,
                        IF dim.score_overall < Tenths(40) THEN Tenths(70) ELSE Tenths(50),
                        FallbackHorizon(dim.score_overall))>>
                  \o FallbackRecommendations(Tail(sorted_dims), findings, priority_rank + 1)

\* the sort key of sorted(..., reverse=True)
ByScoreDescending(d) == [num |-> -d.score_overall, den |-> 1]

ByScore(d) == [num |-> d.score_overall, den |-> 1]

build_recommendations(doc, dimensions, findings) ==
    IF RichPath(doc) THEN RichRecommendations(doc, findings)
    ELSE FallbackRecommendations(StableSort(ByScore, dimensions), findings, 1)

-----------------------------------------------------------------------------
(* Phase4IDMCompiler: quick wins, risks, roadmap, scores summary *)

QuickWin(rec) == [recommendation_id |-> rec.id]

Selected(quick_wins, rec) ==
    \E i \in 1..Len(quick_wins) : quick_wins[i].recommendation_id = rec.id

RECURSIVE BackfillNinetyDays(_, _)
\* the second loop of the rich branch: 90-day items not yet selected, until 10 are held
BackfillNinetyDays(recs, quick_wins) ==
    IF recs = <<>> THEN quick_wins
    ELSE IF Head(recs).horizon = "90_days" /\ ~Selected(quick_wins, Head(recs))
    THEN LET more == Append(quick_wins, QuickWin(Head(recs)))
         IN  IF Len(more) >= 10 THEN more ELSE BackfillNinetyDays(Tail(recs), more)
    ELSE BackfillNinetyDays(Tail(recs), quick_wins)

\* the first loop without its break at 10
RichQuickWinsUncapped(recommendations) ==
    LET low_effort == Filter(recommendations,
                             LAMBDA rec : rec.effort_score <= Tenths(40)
                                          /\ rec.impact_score >= Tenths(60))
        quick_wins == MapSeq(low_effort, QuickWin)
    IN  IF Len(quick_wins) < 5 THEN BackfillNinetyDays(recommendations, quick_wins)
        ELSE quick_wins

RichQuickWins(recommendations) ==
    LET low_effort == Filter(recommendations,
                             LAMBDA rec : rec.effort_score <= Tenths(40)
                                          /\ rec.impact_score >= Tenths(60))
        quick_wins == MapSeq(Prefix(low_effort, 10), QuickWin)
    IN  IF Len(quick_wins) < 5 THEN BackfillNinetyDays(recommendations, quick_wins)
        ELSE quick_wins

\* the sort key without the division by the effort
ByImpactDescending(rec) == [num |-> -rec.impact_score, den |-> 1]

\* key of sorted(..., key=impact / max(effort, 1), reverse=True)
ByRatioDescending(rec) ==
    [num |-> -rec.impact_score,
     den |-> IF rec.effort_score > Tenths(1) THEN rec.effort_score ELSE Tenths(1)]

RECURSIVE BackfillByRatio(_, _)
\* the loop over sorted_recs[:5] of the fallback branch
BackfillByRatio(recs, quick_wins) ==
    IF recs = <<>> THEN quick_wins
    ELSE LET more == IF Selected(quick_wins, Head(recs)) THEN quick_wins
                     ELSE Append(quick_wins, QuickWin(Head(recs)))
         IN  IF Len(more) >= 5 THEN more ELSE BackfillByRatio(Tail(recs), more)

\* the backfill without its test on the number already selected
FallbackQuickWinsAlwaysBackfill(recommendations) ==
    LET quick_wins ==
            MapSeq(Filter(recommendations,
                          LAMBDA rec : rec.impact_score >= Tenths(60)
                                       /\ rec.effort_score < Tenths(50)
                                       /\ rec.horizon = "90_days"),
                   QuickWin)
    IN  BackfillByRatio(Prefix(StableSort(ByRatioDescending, recommendations), 5), quick_wins)

FallbackQuickWins(recommendations) ==
    LET quick_wins ==
            MapSeq(Filter(recommendations,
                          LAMBDA rec : rec.impact_score >= Tenths(60)
                                       /\ rec.effort_score < Tenths(50)
                                       /\ rec.horizon = "90_days"),
                   QuickWin)
    IN  IF Len(quick_wins) < 3
        THEN BackfillByRatio(Prefix(StableSort(ByRatioDescending, recommendations), 5),
                             quick_wins)
        ELSE quick_wins

build_quick_wins(doc, recommendations) ==
    IF RichPath(doc) THEN RichQuickWins(recommendations)
    ELSE FallbackQuickWins(recommendations)

Risk(id, dimension_code, severity, likelihood, narrative) ==
    [id |-> id, dimension_code |-> dimension_code, severity |-> severity,
     likelihood |-> likelihood, narrative |-> narrative]

\* likelihood_map / impact_map .get(label.lower() if str else 'medium', 'Medium')
LevelOf(value) ==
    LET label == LabelOf(IF value.kind = "missing" THEN Str("medium") ELSE value, "medium")
    IN  CASE label = "low" -> "Low"
          [] label = "medium" -> "Medium"
          [] label = "high" -> "High"
          [] OTHER -> "Medium"

severity_matrix(risk_level, impact_level) ==
    CASE risk_level = "High" /\ impact_level = "High" -> "Critical"
      [] risk_level = "High" /\ impact_level = "Medium" -> "High"
      [] risk_level = "Medium" /\ impact_level = "High" -> "High"
      [] risk_level = "Medium" /\ impact_level = "Medium" -> "Medium"
      [] risk_level = "Low" /\ impact_level = "High" -> "Medium"
      [] risk_level = "High" /\ impact_level = "Low" -> "Medium"
      [] risk_level = "Medium" /\ impact_level = "Low" -> "Low"
      [] risk_level = "Low" /\ impact_level = "Medium" -> "Low"
      [] risk_level = "Low" /\ impact_level = "Low" -> "Low"
      [] OTHER -> "Medium"

RiskNarrative(category_risk) ==
    IF category_risk.mitigation # ""
    THEN category_risk.description \o " Mitigation: " \o category_risk.mitigation
    ELSE category_risk.description

CategoryRisks(cat, first_id) ==
    [i \in 1..Len(cat.categoryRisks) |->
        LET risk_level == LevelOf(cat.categoryRisks[i].likelihood)
            impact_level == LevelOf(cat.categoryRisks[i].impact)
        IN  Risk("risk-" \o Pad3(first_id + i - 1), normalize_dim_code(cat.categoryCode),
                 severity_matrix(risk_level, impact_level), risk_level,
                 RiskNarrative(cat.categoryRisks[i]))]

RECURSIVE RichRisks(_, _)
RichRisks(cats, first_id) ==
    IF cats = <<>> THEN <<>>
    ELSE LET here == CategoryRisks(Head(cats), first_id)
         IN  here \o RichRisks(Tail(cats), first_id + Len(here))

FallbackRisks(findings) ==
    MapSeq(Filter(findings, LAMBDA f : f.type = "risk" \/ f.severity = "Critical"),
           LAMBDA f : Risk("risk-" \o f.id, f.dimension_code, f.severity, "High", f.narrative))

build_risks(doc, findings) ==
    IF RichPath(doc) THEN RichRisks(doc.categoryAnalyses, 1) ELSE FallbackRisks(findings)

RoadmapPhase(id, recs) == [id |-> id, linked_recommendation_ids |-> MapSeq(recs, LAMBDA r : r.id)]

\* the phase of a horizon whether or not a recommendation has it
HorizonPhaseAlways(id, horizon, recommendations) ==
    <<RoadmapPhase(id, Filter(recommendations, LAMBDA r : r.horizon = horizon))>>

HorizonPhase(id, horizon, recommendations) ==
    LET recs == Filter(recommendations, LAMBDA r : r.horizon = horizon)
    IN  IF recs # <<>> THEN <<RoadmapPhase(id, recs)>> ELSE <<>>

\* a roadmap that stops at 12 months
build_roadmap_without_phase_3(recommendations) ==
    LET phases == HorizonPhase("phase-1", "90_days", recommendations)
                  \o HorizonPhase("phase-2", "12_months", recommendations)
    IN  [phases |-> IF phases # <<>> THEN phases
                    ELSE <<RoadmapPhase("phase-continuous", Prefix(recommendations, 3))>>]

build_roadmap(recommendations) ==
    LET phases == HorizonPhase("phase-1", "90_days", recommendations)
                  \o HorizonPhase("phase-2", "12_months", recommendations)
                  \o HorizonPhase("phase-3", "24_months_plus", recommendations)
    IN  [phases |-> IF phases # <<>> THEN phases
                    ELSE <<RoadmapPhase("phase-continuous", Prefix(recommendations, 3))>>]

TrendCount(scores, trend) == Len(Filter(scores, LAMBDA cat : cat.trend = trend))

\* the two comparisons with >= in place of >
build_scores_summary_inclusive(scores, chapters, dimensions) ==
    LET overall_score ==
            IF chapters # <<>>
            THEN RoundHalfEven(SumSeq(MapSeq(chapters, LAMBDA c : c.score_overall)),
                               Len(chapters))
            ELSE Tenths(60)
        improving_count == TrendCount(scores, "improving")
        declining_count == TrendCount(scores, "declining")
    IN  [overall_health_score |-> overall_score,
         descriptor |-> get_health_descriptor(overall_score),
         trajectory |-> IF improving_count >= declining_count + 2 THEN "Improving"
                        ELSE IF declining_count >= improving_count + 2 THEN "Declining"
                        ELSE "Flat",
         key_imperatives |-> MapSeq(Prefix(StableSort(ByScore, dimensions), 3),
                                    LAMBDA d : [name |-> d.name, score |-> d.score_overall])]

build_scores_summary(scores, chapters, dimensions) ==
    LET overall_score ==
            IF chapters # <<>>
            THEN RoundHalfEven(SumSeq(MapSeq(chapters, LAMBDA c : c.score_overall)),
                               Len(chapters))
            ELSE Tenths(60)
        improving_count == TrendCount(scores, "improving")
        declining_count == TrendCount(scores, "declining")
    IN  [overall_health_score |-> overall_score,
         descriptor |-> get_health_descriptor(overall_score),
         trajectory |-> IF improving_count > declining_count + 2 THEN "Improving"
                        ELSE IF declining_count > improving_count + 2 THEN "Declining"
                        ELSE "Flat",
         key_imperatives |-> MapSeq(Prefix(StableSort(ByScore, dimensions), 3),
                                    LAMBDA d : [name |-> d.name, score |-> d.score_overall])]

-----------------------------------------------------------------------------
(* Phase4IDMCompiler.compile_idm *)

\* self.phase1.get('company_profile_id', str(uuid.uuid4()))
CompanyIdAlwaysFresh(p1, fresh_uuid) == fresh_uuid

CompanyId(p1, fresh_uuid) ==
    IF p1.company_profile_id # <<>> THEN p1.company_profile_id[1] ELSE fresh_uuid

\* the IDM compile_idm returns; company_uuid and run_uuid are the two uuid4() draws and
\* now is datetime.utcnow()
compile_idm(p1, doc, webhook, scores, company_uuid, run_uuid, now) ==
    LET dimensions == build_dimensions(scores)
        chapters == build_chapters(dimensions)
        findings == build_findings(doc, dimensions)
        recommendations == build_recommendations(doc, dimensions, findings)
    IN  [meta |-> [assessment_run_id |-> run_uuid,
                   company_profile_id |-> CompanyId(p1, company_uuid),
                   created_at |-> now],
         chapters |-> chapters,
         dimensions |-> dimensions,
         questions |-> build_questions(webhook),
         findings |-> findings,
         recommendations |-> recommendations,
         quick_wins |-> build_quick_wins(doc, recommendations),
         risks |-> build_risks(doc, findings),
         roadmap |-> build_roadmap(recommendations),
         scores_summary |-> build_scores_summary(scores, chapters, dimensions)]

-----------------------------------------------------------------------------
(* Phase4IDMCompiler: Phase 1.5 integration check *)

\* the values of {cat['categoryCode']: cat for cat in categoryAnalyses}: of the
\* categories of one code the last one stays
Phase15Categories(doc) ==
    LET cats == doc.categoryAnalyses
        last == Filter([i \in 1..Len(cats) |-> i],
                       LAMBDA i : \A j \in (i + 1)..Len(cats) :
                                     cats[j].categoryCode # cats[i].categoryCode)
    IN  MapSeq(last, LAMBDA i : cats[i])

expected_codes ==
    <<"STR", "SAL", "MKT", "CXP", "OPS", "FIN", "HRS", "LDG", "TIN", "ITD", "IDS", "RMS", "CMP">>

FallbackModeIssue == "INFO: Phase 1.5 data not used (fallback mode)"

\* the warning when total < 12
LowContent(total, what) ==
    IF total < 12 THEN <<"LOW CONTENT: Only " \o ToString(total) \o " " \o what \o " found">>
    ELSE <<>>

\* the issues validate_phase15_integration returns; the documents carry no
\* crossCategoryInsights, so its warning is always among those of a Phase 1.5 run
validate_phase15_integration(using, doc, scores) ==
    IF ~using THEN <<FallbackModeIssue>>
    ELSE LET phase15_categories == Phase15Categories(doc)
             codes == {phase15_categories[i].categoryCode : i \in 1..Len(phase15_categories)}
             OfCode(code) == CHOOSE cat \in Range(phase15_categories) : cat.categoryCode = code
             missing == Filter(expected_codes,
                               LAMBDA code : /\ code \notin codes
                                             /\ ~(code = "ITD" /\ "IDS" \in codes)
                                             /\ ~(code = "IDS" /\ "ITD" \in codes))
             mismatched ==
                 Filter(scores,
                        LAMBDA cat_score :
                            /\ cat_score.dimension_code \in codes
                            /\ LET difference == cat_score.score
                                                 - OfCode(cat_score.dimension_code).overallScore
                               IN  difference > 1 \/ difference < -1)
             Total(Count(_)) == SumSeq(MapSeq(phase15_categories, Count))
         IN  MapSeq(missing, LAMBDA code : "MISSING: Category " \o code \o " not in Phase 1.5 data")
             \o MapSeq(mismatched, LAMBDA cat_score : "SCORE MISMATCH: " \o cat_score.dimension_code)
             \o LowContent(Total(LAMBDA cat : Len(cat.strengths)), "strengths")
             \o LowContent(Total(LAMBDA cat : Len(cat.weaknesses)), "weaknesses")
             \o LowContent(Total(LAMBDA cat : Len(cat.quickWins)), "quick wins")
             \o <<"WARNING: No cross-category insights found in Phase 1.5 data">>
             \o (IF doc.overallSummary = <<>>
                 THEN <<"WARNING: No overall summary found in Phase 1.5 data">> ELSE <<>>)

-----------------------------------------------------------------------------
(* Phase4IDMCompiler.compile_phase4_json: the legacy summary *)

ByCategoryScoreDescending(cat) == [num |-> -cat.score, den |-> 1]

ByCategoryScore(cat) == [num |-> cat.score, den |-> 1]

\* get_health_descriptor applied to the unrounded quotient total / k
get_health_descriptor_of_quotient(total, k) ==
    IF total >= Tenths(85) * k THEN "Excellent Health"
    ELSE IF total >= Tenths(75) * k THEN "Good Health"
    ELSE IF total >= Tenths(65) * k THEN "Fair Health"
    ELSE IF total >= Tenths(50) * k THEN "Needs Improvement"
    ELSE "Critical Condition"

\* sum(...) / len(self.category_scores) raises ZeroDivisionError in
\* compile_trajectory_summary, the first summary that divides; min() of an empty list
\* would raise in compile_findings_legacy
LegacyRaises(scores) == Len(scores) = 0

\* the document compile_phase4_json returns when it does not raise, without its
\* constant sections (financial_projections, quick_wins, interdependencies), its
\* percentiles and its timestamp; formatted numbers are kept as numbers
compile_phase4_json(p1, p2, p3, webhook, scores) ==
    LET total == SumSeq(MapSeq(scores, LAMBDA c : c.score))
        top3 == Prefix(StableSort(ByCategoryScoreDescending, scores), 3)
        bottom3 == Prefix(StableSort(ByCategoryScore, scores), 3)
        weakest == Head(StableSort(ByCategoryScore, scores))
        Names(cats) == MapSeq(cats, LAMBDA c : c.name)
        Sum(cats) == SumSeq(MapSeq(cats, LAMBDA c : c.score))
        declining_count == TrendCount(scores, "declining")
        high_risk == Filter(scores, LAMBDA c : c.score < Tenths(45))
    IN  [company_profile_id |->
             IF p1.company_profile_id # <<>> THEN p1.company_profile_id[1] ELSE "unknown",
         strength_summary |-> Names(Filter(top3, LAMBDA c : c.score >= Tenths(70))),
         challenge_summary |-> Names(Filter(bottom3, LAMBDA c : c.score < Tenths(60))),
         trajectory_summary |->
             IF declining_count >= 3 THEN "Declining trajectory"
             ELSE IF declining_count >= 2 THEN "Mixed trajectory"
             ELSE "Stable trajectory",
         findings |->
             IF weakest.score < Tenths(50)
             THEN <<[affected_areas |-> <<weakest.name>>,
                     severity |-> IF weakest.score < Tenths(40) THEN "Critical" ELSE "High"]>>
             ELSE <<>>,
         health_status |->
             [descriptor |-> get_health_descriptor_of_quotient(total, Len(scores)),
              score |-> RoundHalfEven(total, Len(scores))],
         performance_analysis |->
             [top3_categories |-> Names(top3),
              top_performance_avg |-> RoundHalfEven(Sum(top3), 3),
              bottom3_categories |-> Names(bottom3),
              bottom_performance_avg |-> RoundHalfEven(Sum(bottom3), 3),
              performance_gap |-> RoundHalfEven(Sum(top3) - Sum(bottom3), 3)],
         imperatives |-> <<[title |-> "Transform " \o weakest.name, priority |-> "Critical"]>>,
         trend_analysis |->
             [declining_categories |-> Names(Filter(scores, LAMBDA c : c.trend = "declining")),
              stable_categories |-> Names(Filter(scores, LAMBDA c : c.trend = "stable")),
              improving_categories |-> Names(Filter(scores, LAMBDA c : c.trend = "improving"))],
         risk_assessment |->
             [high_risk_areas |-> Names(high_risk),
              mitigation_priority |-> IF high_risk # <<>> THEN "Immediate" ELSE "Standard"],
         data_sources |->
             [phase1 |-> p1.company_profile_id # <<>>, phase2 |-> p2.loaded,
              phase3 |-> p3.loaded, webhook |-> DOMAIN webhook # {}]]

-----------------------------------------------------------------------------
(* idm_models.py: validation *)

ScoreBands == {"Excellence", "Proficiency", "Attention", "Critical"}

FindingTypes == {"strength", "gap", "risk", "opportunity"}

RecommendationHorizons == {"90_days", "12_months", "24_months_plus"}

\* Field(ge=0, le=100)
IsScore(x) == 0 <= x /\ x <= MaxScore

\* IDM(**data) validates: every field the models declare has its type, every enum
\* field one of its values, every constrained number lies in its range
SchemaValid(data) ==
    /\ \A i \in 1..Len(data.chapters) :
          /\ data.chapters[i].chapter_code \in Range(ChapterCode)
          /\ IsScore(data.chapters[i].score_overall)
          /\ data.chapters[i].score_band \in ScoreBands
    /\ \A i \in 1..Len(data.dimensions) :
          /\ data.dimensions[i].dimension_code \in DimensionCodes
          /\ data.dimensions[i].chapter_code \in Range(ChapterCode)
          /\ IsScore(data.dimensions[i].score_overall)
          /\ data.dimensions[i].score_band \in ScoreBands
          /\ \A k \in 1..Len(data.dimensions[i].sub_indicators) :
                IsScore(data.dimensions[i].sub_indicators[k].score)
    /\ \A i \in 1..Len(data.questions) :
          /\ data.questions[i].dimension_code \in DimensionCodes
          /\ \A k \in 1..Len(data.questions[i].normalized_score) :
                IsScore(data.questions[i].normalized_score[k])
    /\ \A i \in 1..Len(data.findings) :
          /\ data.findings[i].dimension_code \in DimensionCodes
          /\ data.findings[i].type \in FindingTypes
    /\ \A i \in 1..Len(data.recommendations) :
          /\ data.recommendations[i].dimension_code \in DimensionCodes
          /\ data.recommendations[i].priority_rank > 0
          /\ IsScore(data.recommendations[i].impact_score)
          /\ IsScore(data.recommendations[i].effort_score)
          /\ data.recommendations[i].horizon \in RecommendationHorizons
    /\ \A i \in 1..Len(data.risks) : data.risks[i].dimension_code \in DimensionCodes
    /\ IsScore(data.scores_summary.overall_health_score)

\* (idm, None) or (None, str(e)): an Optional is <<>> for None and <<v>> for a value
validate_idm_safe(data) ==
    IF SchemaValid(data) THEN [idm |-> <<data>>, error |-> <<>>]
    ELSE [idm |-> <<>>, error |-> <<"validation error">>]

-----------------------------------------------------------------------------
(* Bounds and the documents a run is given *)

MaxCats == 2        \* categoryAnalyses entries of a partial Phase 1.5 document
MaxItems == 1       \* entries of each list inside one detailed category
MaxResponses == 2   \* responses under one webhook category
MaxRuns == 2        \* compile_idm calls on one compiler
MaxRecs == 6        \* recommendations of a list drawn from every kind
MaxLongRecs == 11   \* recommendations of a list drawn from the two 90-day kinds
MaxAnswers == 3     \* answers under the webhook category that is scored
MaxQuestions == 7   \* answers under the webhook category that is turned into questions
MaxWeaknesses == 2  \* weaknesses of the category whose severities are varied

Phase1Docs == {[company_profile_id |-> <<>>], [company_profile_id |-> <<"company-1">>]}

Summaries ==
    {<<>>} \cup {<<[trajectory |-> t, topOpportunities |-> o]>> :
                    t \in {"Stable", "Improving"}, o \in {<<>>, <<"enter new market">>}}

Category(code, score, strengths, weaknesses, quickWins, categoryRisks) ==
    [categoryCode |-> code, categoryName |-> "Category " \o code, overallScore |-> score,
     strengths |-> strengths, weaknesses |-> weaknesses, quickWins |-> quickWins,
     categoryRisks |-> categoryRisks]

StrengthEntries == {[description |-> "loyal customers"], [description |-> ""]}

WeaknessEntries ==
    {[severity |-> v, description |-> "slow sales cycle", rootCause |-> ""] :
        v \in {Str("high"), Str("medium")}}

QuickWinEntries ==
    {[effort |-> Str("low"), impact |-> Str("high")],
     [effort |-> Str("high"), impact |-> Str("low")]}

RiskEntries ==
    {[likelihood |-> Str("high"), impact |-> Str("high"),
      description |-> "key customer churn", mitigation |-> ""]}

RichScores == {Tenths(35), Tenths(70)}

\* a category as upstream usually writes it: one entry in every list
PlainCategory(code, score) ==
    Category(code, score,
             <<[description |-> "loyal customers"]>>,
             <<[severity |-> Str("high"), description |-> "slow sales cycle", rootCause |-> ""]>>,
             <<[effort |-> Str("low"), impact |-> Str("high")]>>,
             <<[likelihood |-> Str("high"), impact |-> Str("high"),
                description |-> "key customer churn", mitigation |-> ""]>>)

\* partial documents: few categories, codes repeated, aliased ("ITD") or unknown ("XXX")
PartialCategories == {PlainCategory(c, sc) : c \in {"STR", "OPS", "ITD", "XXX"}, sc \in RichScores}

\* one category in detail
DetailedCategories ==
    {Category("ITD", Tenths(35), st, w, q, r) :
        st \in SeqsUpTo(StrengthEntries, MaxItems), w \in SeqsUpTo(WeaknessEntries, MaxItems),
        q \in SeqsUpTo(QuickWinEntries, MaxItems), r \in SeqsUpTo(RiskEntries, MaxItems)}

\* complete documents: the 12 categories in canonical order, IDS under either spelling
FullCategoryLists ==
    {[i \in 1..Len(DimensionCode) |->
        PlainCategory(IF DimensionCode[i] = "IDS" THEN ids ELSE DimensionCode[i], sc)] :
        ids \in {"IDS", "ITD"}, sc \in RichScores}

RichDoc(cats, summary) ==
    [hasCategoryAnalyses |-> TRUE, categoryAnalyses |-> cats, overallSummary |-> summary]

PartialDocs == {RichDoc(cats, su) : cats \in SeqsUpTo(PartialCategories, MaxCats), su \in Summaries}

DetailedDocs == {RichDoc(<<cat>>, su) : cat \in DetailedCategories, su \in Summaries}

FullDocs == {RichDoc(cats, su) : cats \in FullCategoryLists, su \in Summaries}

\* documents without categoryAnalyses: no file, or a file with a summary only
NoRichDocs ==
    {EmptyDoc,
     [hasCategoryAnalyses |-> FALSE, categoryAnalyses |-> <<>>,
      overallSummary |-> <<[trajectory |-> "Improving", topOpportunities |-> <<>>]>>]}

ResponseKeys == {"q1", "q2", "revenue_growth"}

ResponseValues == {Num(2), Num(5), Num(90), Num(-10), Str("n/a")}

Responses == {[key |-> k, value |-> v] : k \in ResponseKeys, v \in ResponseValues}

\* a dict: no key twice
CategoryDatas ==
    {d \in SeqsUpTo(Responses, MaxResponses) :
        \A i, j \in 1..Len(d) : i # j => d[i].key # d[j].key}

\* one category answered in detail
DeepWebhooks == {[k \in {key} |-> d] : key \in {"strategy", "operations"}, d \in CategoryDatas}

WideKeys == {"strategy", "sales", "operations", "it_infrastructure"}

WideDatas == {<<[key |-> "q1", value |-> Num(2)]>>, <<[key |-> "q1", value |-> Num(3)]>>}

\* several categories answered with one response each
WideWebhooks == UNION {[D -> WideDatas] : D \in SUBSET WideKeys}

SampleWebhook == [k \in {"strategy"} |-> <<[key |-> "q1", value |-> Num(2)]>>]

\* one percentage per category, on and next to the limits of the score tiers
TierWebhook ==
    [k \in {"strategy", "sales", "marketing", "customer_experience", "operations",
            "financials", "human_resources"} |->
        <<[key |-> "q1",
           value |-> Num(CASE k = "strategy" -> 80
                           [] k = "sales" -> 79
                           [] k = "marketing" -> 60
                           [] k = "customer_experience" -> 59
                           [] k = "operations" -> 40
                           [] k = "financials" -> 39
                           [] k = "human_resources" -> 100)]>>]

\* seven categories below 60, three of them below 40
LowWebhook ==
    [k \in {"strategy", "sales", "marketing", "customer_experience", "operations",
            "financials", "human_resources"} |->
        <<[key |-> "q1",
           value |-> Num(CASE k = "strategy" -> 10
                           [] k = "sales" -> 20
                           [] k = "marketing" -> 30
                           [] k = "customer_experience" -> 45
                           [] k = "operations" -> 50
                           [] k = "financials" -> 55
                           [] k = "human_resources" -> 58)]>>]

\* (Phase 1.5 document, webhook payload) pairs
Inputs ==
    ((PartialDocs \cup DetailedDocs) \X {NoWebhook})
    \cup (FullDocs \X {NoWebhook, SampleWebhook})
    \cup (NoRichDocs \X (DeepWebhooks \cup WideWebhooks \cup {TierWebhook, LowWebhook}))

RepeatInputs ==
    (FullDocs \X {NoWebhook, SampleWebhook}) \cup (NoRichDocs \X WideWebhooks)

\* the five files of a run in which every file is there and parses
ReadableFiles(phase1Docs, inputs) ==
    {[phase1 |-> File("ok", p1), phase2 |-> File("ok", [loaded |-> TRUE]),
      phase3 |-> File("ok", [loaded |-> TRUE]), phase1_5 |-> File("ok", in[1]),
      webhook |-> File("ok", in[2])] : p1 \in phase1Docs, in \in inputs}

FileKinds == {"phase1", "phase2", "phase3", "phase1_5", "webhook"}

\* a file that is not there, or is there and is not JSON; `partial` is what of it
\* could be read
FailedFiles(partial) == {File("missing", partial), File("invalid", partial)}

\* no path given for an optional file
AbsentFile(kind) == File("absent", EmptyObject(kind))

\* a Phase 1.5 document cut off inside its second category
TruncatedDoc == RichDoc(<<PlainCategory("STR", Tenths(35))>>, <<>>)

\* the five files of a run, each readable, missing or not JSON; a readable file is a
\* well-formed document of its kind
LoadFiles ==
    [phase1 : {File("ok", p1) : p1 \in Phase1Docs} \cup FailedFiles(EmptyObject("phase1")),
     phase2 : {File("ok", [loaded |-> TRUE])} \cup FailedFiles(EmptyObject("phase2")),
     phase3 : {File("ok", [loaded |-> TRUE])} \cup FailedFiles(EmptyObject("phase3")),
     phase1_5 : {File("ok", doc) : doc \in {RichDoc(cats, <<>>) : cats \in FullCategoryLists}}
                \cup FailedFiles(TruncatedDoc) \cup {AbsentFile("phase1_5")},
     webhook : {File("ok", SampleWebhook)} \cup FailedFiles(EmptyObject("webhook"))
               \cup {AbsentFile("webhook")}]

\* webhook categories that carry one growth figure each: above 15, below -5, between
TrendKeys == {"strategy", "sales", "marketing", "operations", "financials"}

GrowthFigures == {Num(20), Num(-10), Num(10)}

TrendWebhooks ==
    {[k \in TrendKeys |-> <<[key |-> "revenue_growth", value |-> figure[k]]>>] :
        figure \in [TrendKeys -> GrowthFigures]}

\* one category with growth figures on and next to the two limits, under either key
\* and in either order
GrowthLimits == {Num(16), Num(15), Num(-5), Num(-6), Str("20")}

GrowthDatas ==
    {d \in SeqsUpTo({[key |-> k, value |-> v] :
                        k \in {"growth_rate", "revenue_growth", "q1"}, v \in GrowthLimits},
                    MaxResponses) :
        \A i, j \in 1..Len(d) : i # j => d[i].key # d[j].key}

GrowthWebhooks == {[k \in {"strategy"} |-> d] : d \in GrowthDatas}

\* Phase 1.5 documents of 2, 3 and 12 categories under each trajectory label
TrendDocs ==
    {RichDoc([i \in 1..n |-> PlainCategory(DimensionCode[i], Tenths(70))], su) :
        n \in {2, 3, 12},
        su \in {<<>>} \cup {<<[trajectory |-> t, topOpportunities |-> <<>>]>> :
                              t \in {"Stable", "Improving", "Declining", "Volatile"}}}

TrendInputs ==
    ({EmptyDoc} \X (TrendWebhooks \cup GrowthWebhooks)) \cup (TrendDocs \X {NoWebhook})

\* the answers under one webhook category: both scales on and off their limits, the
\* two booleans, and values that are not numbers
AnswerValues ==
    {Num(1), Num(5), Num(96), Num(101), Num(-1), Bool(TRUE), Bool(FALSE), Str("n/a"), Null}

\* a dict of answers under the keys q1, q2, ...
Answers(values) ==
    [i \in 1..Len(values) |-> [key |-> "q" \o ToString(i), value |-> values[i]]]

AnswerWebhooks ==
    {[k \in {"strategy"} |-> Answers(values)] : values \in SeqsUpTo(AnswerValues, MaxAnswers)}

\* a category with more answers than a dimension has sub-indicators, one of them null
QuestionnaireWebhooks ==
    {[k \in {"sales"} |-> Answers([i \in 1..n |-> IF i = 2 THEN Null ELSE Num(3)])] :
        n \in 4..MaxQuestions}

\* scores on and just below the limits of the score bands
BandScores == {Tenths(80), Tenths(80) - 1, Tenths(60), Tenths(60) - 1, Tenths(40), Tenths(40) - 1}

\* Phase 1.5 documents of three Growth Engine categories
BandDocs ==
    {RichDoc(<<PlainCategory("STR", a), PlainCategory("SAL", b), PlainCategory("MKT", c)>>,
             <<>>) : a \in BandScores, b \in BandScores, c \in BandScores}

ScoringInputs ==
    ({EmptyDoc} \X (AnswerWebhooks \cup QuestionnaireWebhooks)) \cup (BandDocs \X {NoWebhook})

\* what the severity of a weakness may be: the four levels, other letter cases, another
\* word, a number, or no severity key
SeverityValues ==
    {Str("critical"), Str("high"), Str("medium"), Str("low"), Str("HIGH"), Str("Critical"),
     Str("urgent"), Num(3), Missing}

\* Phase 1.5 documents of one category with a strength and some weaknesses
SeverityDocs ==
    {RichDoc(<<Category("STR", Tenths(35), <<[description |-> "loyal customers"]>>,
                        weaknesses, <<>>, <<>>)>>, <<>>) :
        weaknesses \in SeqsUpTo({[severity |-> v, description |-> "slow sales cycle",
                                  rootCause |-> ""] : v \in SeverityValues},
                                MaxWeaknesses)}

\* the runs of main: every kind of Phase 1.5 document, with and without a webhook
MainInputs ==
    (PartialDocs \cup FullDocs \cup NoRichDocs \cup SeverityDocs) \X {NoWebhook, SampleWebhook}

UUIDs == {"uuid-a", "uuid-b"}

Clock == {"2025-11-29T10:00:00Z", "2025-11-29T10:00:01Z"}

ScoreInputs == 0..MaxScore

TrajectoryInputs == Tenths(40)..Tenths(52)

NoCall == [fn |-> "none", score |-> 0, previous |-> <<>>, ret |-> ""]

\* main() before it has assigned validation_issues and phase4_output
NoLocals == [validation_issues |-> <<>>, phase4_output |-> <<>>]

\* (impact_score, effort_score, horizon) of the recommendations handed to
\* _build_quick_wins: on and off each limit of its two selections
LowEffortHighImpact == [impact_score |-> Tenths(85), effort_score |-> Tenths(30), horizon |-> "90_days"]

LowImpact == [impact_score |-> Tenths(45), effort_score |-> Tenths(30), horizon |-> "90_days"]

FreeLongTerm == [impact_score |-> Tenths(90), effort_score |-> 0, horizon |-> "24_months_plus"]

OnTheLimits == [impact_score |-> Tenths(60), effort_score |-> Tenths(50), horizon |-> "90_days"]

RecommendationKinds == {LowEffortHighImpact, LowImpact, FreeLongTerm, OnTheLimits}

\* the recommendations of the kinds in a sequence, with ids and ranks by position
RecommendationsOf(kinds) ==
    [i \in 1..Len(kinds) |->
        Recommendation("rec-" \o Pad3(i), "STR", <<>>, i, kinds[i].impact_score,
                       kinds[i].effort_score, kinds[i].horizon)]

RecommendationLists ==
    {RecommendationsOf(kinds) :
        kinds \in SeqsUpTo(RecommendationKinds, MaxRecs)
                  \cup SeqsUpTo({LowEffortHighImpact, LowImpact}, MaxLongRecs)}

ValidateInputs ==
    ({RichDoc(cats, <<>>) : cats \in FullCategoryLists} \X {NoWebhook})
    \cup ({EmptyDoc} \X {NoWebhook, TierWebhook})

\* documents handed to the validator: a compiled IDM as it is, with a reference to an
\* id that no record of the document has, or with a rank outside its range
Candidates(idm) ==
    {idm,
     [idm EXCEPT !.quick_wins = Append(@, [recommendation_id |-> "rec-999"])],
     [idm EXCEPT !.roadmap.phases[1].linked_recommendation_ids = Append(@, "rec-999")]}
    \cup {[idm EXCEPT !.recommendations[1].linked_finding_ids = Append(@, "finding-999")] :
             i \in {1} \cap DOMAIN idm.recommendations}
    \cup {[idm EXCEPT !.recommendations[1].priority_rank = 0] :
             i \in {1} \cap DOMAIN idm.recommendations}

-----------------------------------------------------------------------------
(* The run *)

\* before __init__ has run: the files are there, nothing is loaded
InitOn(fileSets) ==
    /\ files \in fileSets
    /\ phase1 = EmptyObject("phase1")
    /\ phase2 = EmptyObject("phase2")
    /\ phase3 = EmptyObject("phase3")
    /\ phase1_5 = EmptyObject("phase1_5")
    /\ webhook_data = EmptyObject("webhook")
    /\ pc = "new"
    /\ using_phase1_5 = FALSE
    /\ category_scores = <<>>
    /\ compiled = <<>>
    /\ helper = NoCall
    /\ main = NoLocals

Init == InitOn(ReadableFiles(Phase1Docs, Inputs))

InitRepeat == InitOn(ReadableFiles(Phase1Docs, RepeatInputs))

InitHelpers == InitOn(ReadableFiles(Phase1Docs, {<<EmptyDoc, NoWebhook>>}))

InitLoad == InitOn(LoadFiles)

InitValidate == InitOn(ReadableFiles(Phase1Docs, ValidateInputs))

InitQuickWins == InitOn(ReadableFiles(Phase1Docs, {<<EmptyDoc, NoWebhook>>}))

InitTrend == InitOn(ReadableFiles({[company_profile_id |-> <<"company-1">>]}, TrendInputs))

InitScores == InitOn(ReadableFiles({[company_profile_id |-> <<"company-1">>]}, ScoringInputs))

InitMain == InitOn(ReadableFiles({[company_profile_id |-> <<"company-1">>]}, MainInputs))

\* Phase4IDMCompiler.__init__
Construct ==
    /\ pc = "new"
    /\ phase1' = load_json(files.phase1, "phase1")
    /\ phase2' = load_json(files.phase2, "phase2")
    /\ phase3' = load_json(files.phase3, "phase3")
    /\ phase1_5' = load_json(files.phase1_5, "phase1_5")
    /\ webhook_data' = load_json(files.webhook, "webhook")
    /\ using_phase1_5' = UsingPhase15(phase1_5')
    /\ category_scores' = extract_category_scores(phase1_5', webhook_data')
    /\ pc' = "constructed"
    /\ UNCHANGED <<files, compiled, helper, main>>

\* one call of compile_idm: it returns an IDM, or raises in _build_dimensions
Compile ==
    /\ pc = "constructed"
    /\ IF DimensionsRaise(category_scores)
       THEN pc' = "failed" /\ compiled' = compiled
       ELSE \E company_uuid \in UUIDs, run_uuid \in UUIDs, now \in Clock :
                /\ compiled' = Append(compiled,
                                      compile_idm(phase1, phase1_5, webhook_data,
                                                  category_scores, company_uuid, run_uuid, now))
                /\ pc' = pc
    /\ UNCHANGED <<files, phase1, phase2, phase3, phase1_5, webhook_data, using_phase1_5,
                   category_scores, helper, main>>

\* the first compile_idm of a compiler
CompileIdm == compiled = <<>> /\ Compile

\* compile_idm once more on the same inputs
CompileIdmAgain == compiled # <<>> /\ Len(compiled) < MaxRuns /\ Compile

CallGetScoreBand ==
    /\ helper = NoCall
    /\ \E score \in ScoreInputs :
          helper' = [fn |-> "get_score_band", score |-> score, previous |-> <<>>,
                     ret |-> get_score_band(score)]
    /\ UNCHANGED <<files, phase1, phase2, phase3, phase1_5, webhook_data, pc, using_phase1_5,
                   category_scores, compiled, main>>

CallGetHealthDescriptor ==
    /\ helper = NoCall
    /\ \E score \in ScoreInputs :
          helper' = [fn |-> "get_health_descriptor", score |-> score, previous |-> <<>>,
                     ret |-> get_health_descriptor(score)]
    /\ UNCHANGED <<files, phase1, phase2, phase3, phase1_5, webhook_data, pc, using_phase1_5,
                   category_scores, compiled, main>>

CallDetermineTrajectory ==
    /\ helper = NoCall
    /\ \E current \in TrajectoryInputs,
          previous \in {<<>>} \cup {<<p>> : p \in TrajectoryInputs} :
          helper' = [fn |-> "determine_trajectory", score |-> current, previous |-> previous,
                     ret |-> determine_trajectory(current, previous)]
    /\ UNCHANGED <<files, phase1, phase2, phase3, phase1_5, webhook_data, pc, using_phase1_5,
                   category_scores, compiled, main>>

\* validate_idm_safe on a candidate document
CallValidateIdmSafe ==
    /\ compiled # <<>>
    /\ helper = NoCall
    /\ \E data \in Candidates(compiled[1]) :
          helper' = [fn |-> "validate_idm_safe", data |-> data, ret |-> validate_idm_safe(data)]
    /\ UNCHANGED <<files, phase1, phase2, phase3, phase1_5, webhook_data, pc, using_phase1_5,
                   category_scores, compiled, main>>

\* _build_quick_wins on a list of recommendations, with and without a Phase 1.5
\* categoryAnalyses list
CallBuildQuickWins ==
    /\ helper = NoCall
    /\ \E doc \in {EmptyDoc, RichDoc(<<>>, <<>>)}, recommendations \in RecommendationLists :
          helper' = [fn |-> "build_quick_wins", rich |-> RichPath(doc),
                     recommendations |-> recommendations,
                     ret |-> build_quick_wins(doc, recommendations)]
    /\ UNCHANGED <<files, phase1, phase2, phase3, phase1_5, webhook_data, pc, using_phase1_5,
                   category_scores, compiled, main>>

\* main: validation_issues = compiler.validate_phase15_integration()
MainValidatePhase15 ==
    /\ pc = "constructed"
    /\ main.validation_issues = <<>>
    /\ main' = [main EXCEPT !.validation_issues =
                    <<validate_phase15_integration(using_phase1_5, phase1_5, category_scores)>>]
    /\ UNCHANGED <<files, phase1, phase2, phase3, phase1_5, webhook_data, pc, using_phase1_5,
                   category_scores, compiled, helper>>

\* main: phase4_output = compiler.compile_phase4_json(); an exception ends main
MainCompilePhase4Json ==
    /\ pc = "constructed"
    /\ main.validation_issues # <<>>
    /\ main.phase4_output = <<>>
    /\ IF LegacyRaises(category_scores)
       THEN pc' = "failed" /\ main' = main
       ELSE /\ pc' = pc
            /\ main' = [main EXCEPT !.phase4_output =
                            <<compile_phase4_json(phase1, phase2, phase3, webhook_data,
                                                  category_scores)>>]
    /\ UNCHANGED <<files, phase1, phase2, phase3, phase1_5, webhook_data, using_phase1_5,
                   category_scores, compiled, helper>>

\* main: idm = compiler.compile_idm()
MainCompileIdm == main.phase4_output # <<>> /\ CompileIdm

Next == Construct \/ CompileIdm

NextMain == Construct \/ MainValidatePhase15 \/ MainCompilePhase4Json \/ MainCompileIdm

NextQuickWins == CallBuildQuickWins

NextValidate == Construct \/ CompileIdm \/ CallValidateIdmSafe

NextRepeat == Construct \/ CompileIdm \/ CompileIdmAgain

NextHelpers == CallGetScoreBand \/ CallGetHealthDescriptor \/ CallDetermineTrajectory

Spec == Init /\ [][Next]_vars

SpecRepeat == InitRepeat /\ [][NextRepeat]_vars

SpecHelpers == InitHelpers /\ [][NextHelpers]_vars

SpecLoad == InitLoad /\ [][Next]_vars

SpecValidate == InitValidate /\ [][NextValidate]_vars

SpecQuickWins == InitQuickWins /\ [][NextQuickWins]_vars

SpecTrend == InitTrend /\ [][Next]_vars

SpecScores == InitScores /\ [][Next]_vars

SpecMain == InitMain /\ [][NextMain]_vars

-----------------------------------------------------------------------------
(* Properties *)

Constructed == pc # "new"

CodesOf(records) == {records[i].dimension_code : i \in 1..Len(records)}

IdsOf(records) == {records[i].id : i \in 1..Len(records)}

Returned == Range(compiled)

\* C1: _extract_category_scores returns exactly 12 CategoryScore entries, one for each
\* of the 12 canonical dimension codes and none repeated, whatever the input.
C1_TwelveCategoryScores ==
    Constructed =>
        /\ Len(category_scores) = 12
        /\ CodesOf(category_scores) = DimensionCodes

\* C2: every IDM returned by compile_idm has exactly 4 chapters, one per chapter code,
\* and exactly 12 dimensions, one per dimension code, and every dimension's chapter_code
\* is the chapter DIMENSION_METADATA gives its dimension_code.
C2_FourChaptersTwelveDimensions ==
    \A idm \in Returned :
        /\ Len(idm.chapters) = 4
        /\ {idm.chapters[i].chapter_code : i \in 1..Len(idm.chapters)} = Range(ChapterCode)
        /\ Len(idm.dimensions) = 12
        /\ CodesOf(idm.dimensions) = DimensionCodes
        /\ \A i \in 1..Len(idm.dimensions) :
              idm.dimensions[i].chapter_code
                  = DIMENSION_METADATA[idm.dimensions[i].dimension_code].chapter

\* C3: in every returned IDM each linked finding id of a recommendation is the id of a
\* finding, each quick win and each roadmap phase entry is the id of a recommendation,
\* and each risk's dimension_code is the code of a dimension, all of the same IDM.
C3_ReferencesResolve ==
    \A idm \in Returned :
        /\ \A i \in 1..Len(idm.recommendations) :
              Range(idm.recommendations[i].linked_finding_ids) \subseteq IdsOf(idm.findings)
        /\ \A i \in 1..Len(idm.quick_wins) :
              idm.quick_wins[i].recommendation_id \in IdsOf(idm.recommendations)
        /\ \A i \in 1..Len(idm.roadmap.phases) :
              Range(idm.roadmap.phases[i].linked_recommendation_ids)
                  \subseteq IdsOf(idm.recommendations)
        /\ \A i \in 1..Len(idm.risks) :
              idm.risks[i].dimension_code \in CodesOf(idm.dimensions)

\* a fallback-mode IDM in which a recommendation links a finding, a quick win and a
\* roadmap phase name a recommendation and a risk names a dimension
C3_Witness ==
    \E idm \in Returned :
        /\ ~RichPath(phase1_5)
        /\ \E i \in 1..Len(idm.recommendations) :
              idm.recommendations[i].linked_finding_ids # <<>>
        /\ idm.quick_wins # <<>>
        /\ idm.risks # <<>>
        /\ idm.roadmap.phases[1].linked_recommendation_ids # <<>>

\* an IDM without the two fields every run draws afresh
WithoutRunFields(idm) ==
    [idm EXCEPT !.meta.assessment_run_id = "", !.meta.created_at = ""]

\* ... and without the company id when phase 1 does not carry one
WithoutFreshFields(idm) ==
    IF phase1.company_profile_id = <<>>
    THEN [WithoutRunFields(idm) EXCEPT !.meta.company_profile_id = ""]
    ELSE WithoutRunFields(idm)

\* C4 as stated: two compile_idm runs over the same inputs return IDMs that are equal
\* in every field and list order, except for the run id and the creation timestamp.
C4_EqualExceptRunIdAndTimestamp ==
    \A i, j \in 1..Len(compiled) :
        WithoutRunFields(compiled[i]) = WithoutRunFields(compiled[j])

\* C4 as amended: ... except for the run id, the creation timestamp and, when the
\* phase 1 document carries no company_profile_id, the company_profile_id, which is
\* then a fresh UUID in every run.
C4_EqualExceptFreshFields ==
    \A i, j \in 1..Len(compiled) :
        WithoutFreshFields(compiled[i]) = WithoutFreshFields(compiled[j])

\* two runs on a phase 1 document that names no company: the run ids and the company
\* ids differ, the recommendations are there and are the same
C4_Witness ==
    /\ Len(compiled) >= 2
    /\ phase1.company_profile_id = <<>>
    /\ compiled[1].meta.assessment_run_id # compiled[2].meta.assessment_run_id
    /\ compiled[1].meta.company_profile_id # compiled[2].meta.company_profile_id
    /\ compiled[1].recommendations # <<>>
    /\ compiled[1].recommendations = compiled[2].recommendations

\* C5: get_score_band returns exactly one band for every score: Excellence from 80,
\* Proficiency from 60 to below 80, Attention from 40 to below 60, Critical below 40.
C5_ScoreBands ==
    helper.fn = "get_score_band" =>
        /\ helper.ret \in {"Excellence", "Proficiency", "Attention", "Critical"}
        /\ helper.ret = "Excellence" <=> helper.score >= Tenths(80)
        /\ helper.ret = "Proficiency" <=> (Tenths(60) <= helper.score /\ helper.score < Tenths(80))
        /\ helper.ret = "Attention" <=> (Tenths(40) <= helper.score /\ helper.score < Tenths(60))
        /\ helper.ret = "Critical" <=> helper.score < Tenths(40)

\* get_score_band(60) was called and returned Proficiency
C5_Witness ==
    helper.fn = "get_score_band" /\ helper.score = Tenths(60) /\ helper.ret = "Proficiency"

\* C6: get_health_descriptor returns "Excellent Health" from 85, "Good Health" from 75
\* to below 85, "Fair Health" from 65 to below 75, "Needs Improvement" from 50 to below
\* 65 and "Critical Condition" below 50.
C6_HealthDescriptors ==
    helper.fn = "get_health_descriptor" =>
        helper.ret =
            CASE helper.score < Tenths(50) -> "Critical Condition"
              [] Tenths(50) <= helper.score /\ helper.score < Tenths(65) -> "Needs Improvement"
              [] Tenths(65) <= helper.score /\ helper.score < Tenths(75) -> "Fair Health"
              [] Tenths(75) <= helper.score /\ helper.score < Tenths(85) -> "Good Health"
              [] helper.score >= Tenths(85) -> "Excellent Health"

\* get_health_descriptor(75) was called and returned "Good Health"
C6_Witness ==
    /\ helper.fn = "get_health_descriptor"
    /\ helper.score = Tenths(75)
    /\ helper.ret = "Good Health"

\* C7: determine_trajectory returns Flat when previous is absent; otherwise Improving
\* when current - previous > 5, Declining when it is < -5, Flat when it is in [-5, 5].
C7_Trajectory ==
    helper.fn = "determine_trajectory" =>
        IF helper.previous = <<>> THEN helper.ret = "Flat"
        ELSE LET difference == helper.score - helper.previous[1]
             IN  /\ difference > Tenths(5) => helper.ret = "Improving"
                 /\ difference < -Tenths(5) => helper.ret = "Declining"
                 /\ (-Tenths(5) <= difference /\ difference <= Tenths(5)) => helper.ret = "Flat"

\* determine_trajectory was called with a difference of exactly 5 and returned Flat
C7_Witness ==
    /\ helper.fn = "determine_trajectory"
    /\ helper.previous # <<>>
    /\ helper.score - helper.previous[1] = Tenths(5)
    /\ helper.ret = "Flat"

\* C8: every chapter's score_overall is what calculate_chapter_score gives for the
\* IDM's dimensions: the mean of the chapter's dimension scores rounded to one decimal,
\* and 0.0 when no dimension belongs to the chapter.
C8_ChapterScoreIsHelperScore ==
    \A idm \in Returned :
        \A i \in 1..Len(idm.chapters) :
            idm.chapters[i].score_overall
                = calculate_chapter_score(idm.dimensions, idm.chapters[i].chapter_code)

\* C9: with no Phase 1.5 source and an empty or absent webhook payload every one of
\* the 12 category scores is 60.0, and the compiled IDM has overall_health_score 60.0
\* and descriptor "Needs Improvement".
C9_EmptyInputsScoreSixty ==
    (Constructed /\ ~RichPath(phase1_5) /\ DOMAIN webhook_data = {}) =>
        /\ Len(category_scores) = 12
        /\ \A i \in 1..Len(category_scores) : category_scores[i].score = Tenths(60)
        /\ \A idm \in Returned :
              /\ idm.scores_summary.overall_health_score = Tenths(60)
              /\ idm.scores_summary.descriptor = "Needs Improvement"

\* an IDM compiled from no Phase 1.5 file and no webhook payload
C9_Witness ==
    /\ phase1_5 = EmptyDoc
    /\ DOMAIN webhook_data = {}
    /\ compiled # <<>>
    /\ compiled[1].scores_summary.overall_health_score = Tenths(60)

\* C10: when neither a Phase 1.5 source nor any webhook response data is available,
\* _extract_category_scores returns the built-in default set of _get_default_scores.
C10_DefaultScoresWhenNoData ==
    (Constructed /\ ~Truthy(phase1_5) /\ DOMAIN webhook_data = {}) =>
        category_scores = get_default_scores

-----------------------------------------------------------------------------
(* Fallback mode *)

\* the IDMs compiled without a Phase 1.5 categoryAnalyses list
FallbackReturned == IF RichPath(phase1_5) THEN {} ELSE Returned

FindingsOf(idm, dimension_code) ==
    {f \in Range(idm.findings) : f.dimension_code = dimension_code}

\* C11: in fallback mode every dimension has at most one finding, decided by its score
\* alone: one Strength finding from 80, one Gap finding of severity Medium from 40 to
\* below 60, one Risk finding of severity Critical below 40, none from 60 to below 80.
C11_FallbackFindingsByScore ==
    \A idm \in FallbackReturned :
        /\ Len(idm.findings) = Cardinality(Range(idm.findings))
        /\ \A i \in 1..Len(idm.dimensions) :
              LET dim == idm.dimensions[i]
                  score == dim.score_overall
                  found == FindingsOf(idm, dim.dimension_code)
              IN  /\ Cardinality(found) <= 1
                  /\ score >= Tenths(80) =>
                        \E f \in found : f.type = "strength"
                  /\ (Tenths(40) <= score /\ score < Tenths(60)) =>
                        \E f \in found : f.type = "gap" /\ f.severity = "Medium"
                  /\ score < Tenths(40) =>
                        \E f \in found : f.type = "risk" /\ f.severity = "Critical"
                  /\ (Tenths(60) <= score /\ score < Tenths(80)) => found = {}

\* a fallback IDM with dimensions scored 80, 79, 60, 59, 40 and 39
C11_Witness ==
    \E idm \in FallbackReturned :
        /\ {Tenths(80), Tenths(79), Tenths(60), Tenths(59), Tenths(40), Tenths(39)}
               \subseteq {idm.dimensions[i].score_overall : i \in 1..Len(idm.dimensions)}
        /\ Len(idm.findings) = 5

\* the dimension a record of the IDM names
DimensionOf(idm, dimension_code) ==
    CHOOSE d \in Range(idm.dimensions) : d.dimension_code = dimension_code

\* C19: in fallback mode there is exactly one recommendation for every dimension that
\* scores below 80 and has a Gap or Risk finding, and none for any other dimension;
\* the recommendations come in ascending order of their dimension's score with
\* priority_rank 1..n in that order; horizon is 90_days below 40, 12_months below 60,
\* else 24_months_plus; impact_score is 100 - score; effort_score is 70 below 40, else 50.
C19_FallbackRecommendations ==
    \A idm \in FallbackReturned :
        LET recs == idm.recommendations
            score(i) == DimensionOf(idm, recs[i].dimension_code).score_overall
        IN  /\ \A i \in 1..Len(idm.dimensions) :
                  LET dim == idm.dimensions[i]
                      eligible == /\ dim.score_overall < Tenths(80)
                                  /\ \E f \in FindingsOf(idm, dim.dimension_code) :
                                        f.type \in {"gap", "risk"}
                  IN  Cardinality({j \in 1..Len(recs) :
                                     recs[j].dimension_code = dim.dimension_code})
                          = IF eligible THEN 1 ELSE 0
            /\ \A i \in 1..Len(recs) :
                  /\ recs[i].dimension_code \in CodesOf(idm.dimensions)
                  /\ recs[i].priority_rank = i
                  /\ \A j \in 1..Len(recs) : i < j => score(i) <= score(j)
                  /\ recs[i].horizon = IF score(i) < Tenths(40) THEN "90_days"
                                       ELSE IF score(i) < Tenths(60) THEN "12_months"
                                       ELSE "24_months_plus"
                  /\ recs[i].impact_score = Tenths(100) - score(i)
                  /\ recs[i].effort_score = IF score(i) < Tenths(40) THEN Tenths(70)
                                            ELSE Tenths(50)

\* a fallback IDM whose first recommendation is for Sales and whose second is for
\* Strategy: Sales scores lower, the sort moved it ahead
C19_Witness ==
    \E idm \in FallbackReturned :
        /\ Len(idm.recommendations) >= 2
        /\ idm.recommendations[1].dimension_code = "SAL"
        /\ idm.recommendations[2].dimension_code = "STR"
        /\ idm.recommendations[1].horizon = "90_days"
        /\ idm.recommendations[2].horizon = "12_months"

-----------------------------------------------------------------------------
(* Findings and roadmap, both modes *)

\* C16: in every compiled IDM no two findings have the same id, and every finding has a
\* non-empty narrative.
C16_FindingIdsUniqueNarrativeNonEmpty ==
    \A idm \in Returned :
        /\ \A i, j \in 1..Len(idm.findings) :
              i # j => idm.findings[i].id # idm.findings[j].id
        /\ \A i \in 1..Len(idm.findings) : idm.findings[i].narrative # ""

PhaseIdOf(horizon) ==
    CASE horizon = "90_days" -> "phase-1"
      [] horizon = "12_months" -> "phase-2"
      [] horizon = "24_months_plus" -> "phase-3"

\* C17: every recommendation of a compiled IDM is listed by the roadmap phase of its
\* horizon, and by no other phase.
C17_RoadmapCoversRecommendations ==
    \A idm \in Returned :
        \A i \in 1..Len(idm.recommendations) :
            LET rec == idm.recommendations[i]
                listing == {k \in 1..Len(idm.roadmap.phases) :
                              rec.id \in Range(idm.roadmap.phases[k].linked_recommendation_ids)}
            IN  /\ listing # {}
                /\ \A k \in listing : idm.roadmap.phases[k].id = PhaseIdOf(rec.horizon)

\* an IDM with a 12-month and a 24-month recommendation, each in its phase
C17_Witness ==
    \E idm \in Returned :
        /\ \E i \in 1..Len(idm.recommendations) : idm.recommendations[i].horizon = "12_months"
        /\ \E i \in 1..Len(idm.recommendations) :
              idm.recommendations[i].horizon = "24_months_plus"
        /\ Len(idm.roadmap.phases) = 2

\* C20: the roadmap holds the phases of the horizons that some recommendation has, in
\* the order phase-1, phase-2, phase-3, each with at least one recommendation; when
\* there is none it holds the single phase "phase-continuous" with the ids of up to the
\* first 3 recommendations; so it has between 1 and 3 phases.
C20_RoadmapPhases ==
    \A idm \in Returned :
        LET phases == idm.roadmap.phases
            horizons == {idm.recommendations[i].horizon : i \in 1..Len(idm.recommendations)}
        IN  /\ 1 <= Len(phases) /\ Len(phases) <= 3
            /\ IF horizons = {}
               THEN /\ Len(phases) = 1
                    /\ phases[1].id = "phase-continuous"
                    /\ phases[1].linked_recommendation_ids
                          = [k \in 1..(IF Len(idm.recommendations) < 3
                                       THEN Len(idm.recommendations) ELSE 3) |->
                                idm.recommendations[k].id]
               ELSE /\ {phases[k].id : k \in 1..Len(phases)} = {PhaseIdOf(h) : h \in horizons}
                    /\ \A k \in 1..Len(phases) : phases[k].linked_recommendation_ids # <<>>
                    /\ \A k, l \in 1..Len(phases) :
                          k < l => \E a, b \in 1..3 :
                                    /\ a < b
                                    /\ phases[k].id = <<"phase-1", "phase-2", "phase-3">>[a]
                                    /\ phases[l].id = <<"phase-1", "phase-2", "phase-3">>[b]

\* an IDM without recommendations: its roadmap is the one fallback phase
C20_Witness ==
    \E idm \in Returned :
        /\ idm.recommendations = <<>>
        /\ Len(idm.roadmap.phases) = 1
        /\ idm.roadmap.phases[1].id = "phase-continuous"

-----------------------------------------------------------------------------
(* Quick wins *)

QuickWinsCalled(rich) == helper.fn = "build_quick_wins" /\ helper.rich = rich

\* positions of the recommendations handed in, and the positions the returned quick
\* wins name, in the order returned
Given == helper.recommendations

Positions == 1..Len(Given)

Chosen ==
    [k \in 1..Len(helper.ret) |->
        CHOOSE i \in Positions : Given[i].id = helper.ret[k].recommendation_id]

\* the positions of P in ascending order of Place, a one-to-one place 0, 1, ... on P
InOrder(P, Place(_)) ==
    [k \in 1..Cardinality(P) |->
        CHOOSE i \in P : Cardinality({j \in P : Place(j) < Place(i)}) = k - 1]

Ascending(P) == InOrder(P, LAMBDA i : i)

\* impact / max(effort, 1) of i is greater than that of j
RatioGreater(i, j) ==
    LET denominator(k) == IF Given[k].effort_score > Tenths(1) THEN Given[k].effort_score
                          ELSE Tenths(1)
    IN  Given[i].impact_score * denominator(j) > Given[j].impact_score * denominator(i)

\* place of i when the list is ranked by ratio, highest first, equal ratios in list order
RatioRank(i) ==
    Cardinality({j \in Positions :
                   RatioGreater(j, i) \/ (~RatioGreater(i, j) /\ j < i)})

\* C12: in fallback mode the quick wins are, in list order, the recommendations with
\* impact_score >= 60, effort_score < 50 and a 90-day horizon; only when these are fewer
\* than 3 they are followed by those of the top 5 by impact/effort ratio that are not
\* yet selected, highest ratio first, until 5 are held; none is selected twice.
C12_FallbackQuickWins ==
    QuickWinsCalled(FALSE) =>
        LET first == {i \in Positions : /\ Given[i].impact_score >= Tenths(60)
                                        /\ Given[i].effort_score < Tenths(50)
                                        /\ Given[i].horizon = "90_days"}
            backfill == {i \in Positions : RatioRank(i) < 5} \ first
        IN  /\ Chosen = IF Cardinality(first) < 3
                        THEN Prefix(Ascending(first) \o InOrder(backfill, RatioRank), 5)
                        ELSE Ascending(first)
            /\ Cardinality(Range(Chosen)) = Len(Chosen)

\* six or more recommendations, one or two selected by the first rule, of which one is
\* among the top 5 by ratio, and the backfill stopped at 5 quick wins
C12_Witness ==
    /\ QuickWinsCalled(FALSE)
    /\ Len(Given) >= 6
    /\ Len(helper.ret) = 5
    /\ Given[Chosen[1]].effort_score < Tenths(50) /\ Given[Chosen[1]].impact_score >= Tenths(60)
    /\ RatioRank(Chosen[1]) < 5
    /\ Given[Chosen[3]].horizon # "90_days"
    /\ \E i \in Positions : i \notin Range(Chosen) /\ RatioRank(i) >= 5

\* C18: in rich mode the quick wins are, in list order, the first 10 recommendations
\* with effort_score <= 40 and impact_score >= 60; only when these are fewer than 5
\* they are followed, in list order, by the 90-day recommendations not yet selected,
\* until 10 are held; at most 10 are returned and none twice.
C18_RichQuickWins ==
    QuickWinsCalled(TRUE) =>
        LET preferred == {i \in Positions : /\ Given[i].effort_score <= Tenths(40)
                                            /\ Given[i].impact_score >= Tenths(60)}
            first == Prefix(Ascending(preferred), 10)
            backfill == {i \in Positions : Given[i].horizon = "90_days"} \ Range(first)
        IN  /\ Chosen = IF Len(first) < 5 THEN Prefix(first \o Ascending(backfill), 10)
                        ELSE first
            /\ Len(Chosen) <= 10
            /\ Cardinality(Range(Chosen)) = Len(Chosen)

\* fewer than 5 preferred recommendations, and the 90-day backfill stopped at 10 with
\* a 90-day recommendation left out
C18_Witness ==
    /\ QuickWinsCalled(TRUE)
    /\ Len(helper.ret) = 10
    /\ Given[Chosen[1]].impact_score >= Tenths(60)
    /\ Given[Chosen[10]].impact_score < Tenths(60)
    /\ \E i \in Positions : i \notin Range(Chosen) /\ Given[i].horizon = "90_days"

-----------------------------------------------------------------------------
(* Validation *)

\* every linked finding id, linked recommendation id and quick win names a record of
\* the same document
ReferencesResolve(data) ==
    /\ \A i \in 1..Len(data.recommendations) :
          Range(data.recommendations[i].linked_finding_ids) \subseteq IdsOf(data.findings)
    /\ \A i \in 1..Len(data.roadmap.phases) :
          Range(data.roadmap.phases[i].linked_recommendation_ids)
              \subseteq IdsOf(data.recommendations)
    /\ \A i \in 1..Len(data.quick_wins) :
          data.quick_wins[i].recommendation_id \in IdsOf(data.recommendations)

\* C13: the validator reports a violation for every document in which a reference does
\* not resolve: a document it accepts has all its references resolved.
C13_ValidatorChecksReferences ==
    (helper.fn = "validate_idm_safe" /\ helper.ret.error = <<>>) =>
        ReferencesResolve(helper.data)

-----------------------------------------------------------------------------
(* File failures *)

Failed(kind) == files[kind].status \in {"missing", "invalid"}

Usable(kind) == files[kind].status = "ok"

\* what __init__ kept of the file of each kind
Loaded(kind) ==
    CASE kind = "phase1" -> phase1
      [] kind = "phase2" -> phase2
      [] kind = "phase3" -> phase3
      [] kind = "phase1_5" -> phase1_5
      [] kind = "webhook" -> webhook_data

\* every section of the IDM is there: 4 chapters, 12 dimensions, a roadmap with a
\* phase, a scores summary with a descriptor
Complete(idm) ==
    /\ Len(idm.chapters) = 4
    /\ Len(idm.dimensions) = 12
    /\ CodesOf(idm.dimensions) = DimensionCodes
    /\ idm.roadmap.phases # <<>>
    /\ idm.scores_summary.descriptor # ""
    /\ idm.meta.assessment_run_id # ""

\* C14: a file that is missing or is not JSON loads as the empty object, and whichever
\* of the five files fail, compile_idm does not raise and returns a complete IDM.
C14_FileFailuresAreNotFatal ==
    /\ pc # "failed"
    /\ Constructed => \A kind \in FileKinds : Failed(kind) => Loaded(kind) = EmptyObject(kind)
    /\ \A idm \in Returned : Complete(idm)

\* an IDM compiled although phase 1 is missing and the Phase 1.5 file is not JSON
C14_Witness ==
    /\ files.phase1.status = "missing"
    /\ files.phase1_5.status = "invalid"
    /\ compiled # <<>>
    /\ Complete(compiled[1])

\* C15: a run in which none of the five files is usable ends in a fatal error and
\* returns no IDM.
C15_NoUsableInputIsFatal ==
    (\A kind \in FileKinds : ~Usable(kind)) => compiled = <<>>

-----------------------------------------------------------------------------
(* Trends and trajectory *)

\* the number of category scores with a trend
Trending(trend) ==
    Cardinality({i \in 1..Len(category_scores) : category_scores[i].trend = trend})

\* C21: scores_summary.trajectory is Improving exactly when the improving category
\* scores outnumber the declining ones by more than 2, Declining exactly when the
\* declining ones outnumber the improving ones by more than 2, and Flat otherwise; a
\* Phase 1.5 document of 12 categories whose overall trajectory is Stable gives every
\* category the trend stable and the IDM the trajectory Flat.
C21_TrajectoryByTrendCounts ==
    \A idm \in Returned :
        LET trajectory == idm.scores_summary.trajectory
        IN  /\ trajectory \in {"Improving", "Declining", "Flat"}
            /\ trajectory = "Improving" <=> Trending("improving") > Trending("declining") + 2
            /\ trajectory = "Declining" <=> Trending("declining") > Trending("improving") + 2
            /\ (/\ RichPath(phase1_5)
                /\ Len(phase1_5.categoryAnalyses) = 12
                /\ phase1_5.overallSummary # <<>>
                /\ phase1_5.overallSummary[1].trajectory = "Stable")
               => (Trending("stable") = 12 /\ trajectory = "Flat")

\* a webhook run with 4 improving categories and 1 declining: 4 > 1 + 2, Improving
C21_Witness ==
    \E idm \in Returned :
        /\ ~RichPath(phase1_5)
        /\ Trending("improving") = 4
        /\ Trending("declining") = 1
        /\ idm.scores_summary.trajectory = "Improving"

\* the numeric responses of a category whose key contains "growth"
GrowthValues(category_data) ==
    {category_data[j].value.n :
        j \in {k \in 1..Len(category_data) : /\ IsGrowthKey(category_data[k].key)
                                             /\ category_data[k].value.kind = "num"}}

\* C23: in fallback mode a category's trend is "improving" whenever any numeric response
\* under a key containing "growth" exceeds 15, otherwise "declining" when any such
\* response is below -5, otherwise "stable"; being decided by the set of responses, it
\* is the same for every order of the keys.
C23_TrendFromGrowthKeys ==
    (Constructed /\ ~RichPath(phase1_5)) =>
        \A i \in 1..Len(category_mapping) :
            LET growth == GrowthValues(CategoryData(webhook_data, category_mapping[i].key))
            IN  category_scores[i].trend =
                    IF \E n \in growth : n > 15 THEN "improving"
                    ELSE IF \E n \in growth : n < -5 THEN "declining"
                    ELSE "stable"

-----------------------------------------------------------------------------
(* Scores *)

\* the numeric responses of a category that lie in [0, 100], in order
Counted(category_data) ==
    Filter(category_data,
           LAMBDA r : r.value.kind = "num" /\ 0 <= r.value.n /\ r.value.n <= 100)

OnFivePointScale(r) == 1 <= r.value.n /\ r.value.n <= 5

\* weights doubled: 1.0 is 2 and 0.5 is 1
DoubledWeights(counted) ==
    SumSeq(MapSeq(counted, LAMBDA r : IF OnFivePointScale(r) THEN 2 ELSE 1))

DoubledWeightedSum(counted) ==
    SumSeq(MapSeq(counted, LAMBDA r : IF OnFivePointScale(r) THEN 2 * (r.value.n - 1) * 250
                                       ELSE Tenths(r.value.n)))

\* C22: in fallback mode the score of a category is the weighted mean, to one decimal,
\* of its numeric responses, a value in [1, 5] counting as (v - 1) / 4 * 100 with
\* weight 1.0 and any other value in [0, 100] as itself with weight 0.5; values outside
\* [0, 100] and values that are not numbers count for nothing; a category in which
\* nothing counts scores 60.0; the score lies in [0, 100].
C22_CategoryScoreIsWeightedMean ==
    (Constructed /\ ~RichPath(phase1_5)) =>
        \A i \in 1..Len(category_mapping) :
            LET counted == Counted(CategoryData(webhook_data, category_mapping[i].key))
                score == category_scores[i].score
                distance == score * DoubledWeights(counted) - DoubledWeightedSum(counted)
            IN  /\ 0 <= score /\ score <= MaxScore
                /\ IF counted = <<>> THEN score = Tenths(60)
                   ELSE /\ 2 * distance <= DoubledWeights(counted)
                        /\ -2 * distance <= DoubledWeights(counted)

\* the offsets of positions 0..4
PositionOffset == <<-Tenths(10), -Tenths(5), 0, Tenths(5), Tenths(10)>>

\* C24: every dimension has one sub-indicator per catalog entry, in catalog order, whose
\* score is the dimension score plus the offset of its position (-10, -5, 0, +5, +10)
\* clamped to [0, 100] and whose score_band is get_score_band of that score; every
\* sub-indicator score lies in [0, 100].
C24_SubIndicatorScores ==
    \A idm \in Returned :
        \A i \in 1..Len(idm.dimensions) :
            LET dim == idm.dimensions[i]
                catalog == SUB_INDICATOR_DEFINITIONS(dim.dimension_code)
                subs == dim.sub_indicators
            IN  /\ Len(subs) = Len(catalog)
                /\ \A k \in 1..Len(subs) :
                      LET varied == dim.score_overall + PositionOffset[k]
                      IN  /\ subs[k].id = catalog[k].id
                          /\ subs[k].dimension_code = dim.dimension_code
                          /\ subs[k].score = IF varied < 0 THEN 0
                                             ELSE IF varied > Tenths(100) THEN Tenths(100)
                                             ELSE varied
                          /\ subs[k].score_band = get_score_band(subs[k].score)
                          /\ 0 <= subs[k].score /\ subs[k].score <= Tenths(100)

\* a dimension scoring 0.0 whose sub-indicators score 0, 0, 0, 5 and 10, next to one
\* scoring 60.0
C24_Witness ==
    \E idm \in Returned :
        /\ \E i \in 1..Len(idm.dimensions) :
              /\ idm.dimensions[i].score_overall = 0
              /\ idm.dimensions[i].sub_indicators[1].score = 0
              /\ idm.dimensions[i].sub_indicators[2].score = 0
              /\ idm.dimensions[i].sub_indicators[5].score = Tenths(10)
        /\ \E i \in 1..Len(idm.dimensions) :
              /\ idm.dimensions[i].score_overall = Tenths(60)
              /\ idm.dimensions[i].sub_indicators[1].score = Tenths(50)

\* C27: every chapter and every dimension of a compiled IDM has the score_band that
\* get_score_band gives for its own score_overall as emitted, which for a chapter is
\* the mean rounded to one decimal.
C27_BandOfEmittedScore ==
    \A idm \in Returned :
        /\ \A i \in 1..Len(idm.dimensions) :
              idm.dimensions[i].score_band = get_score_band(idm.dimensions[i].score_overall)
        /\ \A i \in 1..Len(idm.chapters) :
              idm.chapters[i].score_band = get_score_band(idm.chapters[i].score_overall)

\* the ids of the sub-indicators the IDM holds
SubIndicatorIdsOf(idm) ==
    UNION {IdsOf(idm.dimensions[i].sub_indicators) : i \in 1..Len(idm.dimensions)}

\* C28: every question's sub_indicator_id is the id of a catalog entry of the
\* question's own dimension, and so of a sub-indicator of the compiled IDM, however
\* many scalar responses the webhook category holds.
C28_QuestionSubIndicatorInCatalog ==
    \A idm \in Returned :
        \A i \in 1..Len(idm.questions) :
            /\ idm.questions[i].sub_indicator_id
                   \in IdsOf(SUB_INDICATOR_DEFINITIONS(idm.questions[i].dimension_code))
            /\ idm.questions[i].sub_indicator_id \in SubIndicatorIdsOf(idm)

-----------------------------------------------------------------------------
(* Rich mode findings *)

\* the strengths and the weaknesses listed by the categories of the document
Listed(doc, field) ==
    SumSeq(MapSeq(doc.categoryAnalyses, LAMBDA cat : Len(cat[field])))

\* C25: in rich mode every listed weakness yields exactly one finding, and the type of
\* that finding agrees with its emitted severity: Risk exactly when the severity is
\* Critical or High, Gap exactly when it is Medium or Low, whatever the severity value
\* of the source (any letter case, missing, not a string).
C25_WeaknessTypeAgreesWithSeverity ==
    RichPath(phase1_5) =>
        \A idm \in Returned :
            LET from_weaknesses == {i \in 1..Len(idm.findings) : idm.findings[i].type # "strength"}
            IN  /\ Cardinality(from_weaknesses) = Listed(phase1_5, "weaknesses")
                /\ Len(idm.findings)
                       = Listed(phase1_5, "strengths") + Listed(phase1_5, "weaknesses")
                /\ \A i \in from_weaknesses :
                      /\ idm.findings[i].type \in {"risk", "gap"}
                      /\ idm.findings[i].severity \in {"Critical", "High", "Medium", "Low"}
                      /\ idm.findings[i].type = "risk"
                             <=> idm.findings[i].severity \in {"Critical", "High"}
                      /\ idm.findings[i].type = "gap"
                             <=> idm.findings[i].severity \in {"Medium", "Low"}

-----------------------------------------------------------------------------
(* main: mode and legacy summary *)

\* compile_phase4_json was called and raised: main ended without phase4_output
Phase4JsonRaised == pc = "failed" /\ main.phase4_output = <<>>

\* C26: within one run the choice between rich and fallback mode is the same
\* everywhere: the using_phase1_5 flag and validate_phase15_integration say rich
\* exactly when _extract_category_scores and the builders of findings,
\* recommendations, quick wins and risks take their Phase 1.5 branch, for every Phase
\* 1.5 document, one with an empty categoryAnalyses list included; a run the flag calls
\* fallback has the 12 webhook category scores.
C26_OneModePerRun ==
    Constructed =>
        /\ using_phase1_5 <=> RichPath(phase1_5)
        /\ main.validation_issues # <<>> =>
              (main.validation_issues[1] = <<FallbackModeIssue>> <=> ~RichPath(phase1_5))
        /\ ~using_phase1_5 => category_scores = ExtractWebhook(webhook_data)

\* C29: whenever the constructor has succeeded, compile_phase4_json returns the legacy
\* summary and does not raise, also when there are no category scores or fewer than 3.
C29_Phase4JsonDoesNotRaise == ~Phase4JsonRaised

-----------------------------------------------------------------------------
(* Fallback mode: quick wins of a compiled IDM *)

\* place of recommendation i of the IDM when its recommendations are ranked by
\* impact_score / max(effort_score, 1), highest first, equal ratios in list order
RankByRatio(idm, i) ==
    LET recs == idm.recommendations
        denominator(k) == IF recs[k].effort_score > Tenths(1) THEN recs[k].effort_score
                          ELSE Tenths(1)
        greater(a, b) == recs[a].impact_score * denominator(b)
                             > recs[b].impact_score * denominator(a)
    IN  Cardinality({j \in 1..Len(recs) : greater(j, i) \/ (~greater(i, j) /\ j < i)})

\* C30: in an IDM compiled in fallback mode no recommendation has the horizon
\* 24_months_plus and none passes the first quick-win filter (impact_score >= 60,
\* effort_score < 50, 90-day horizon), so the quick wins are exactly the first
\* min(5, n) of the n recommendations ranked by impact/effort ratio, highest first.
C30_FallbackQuickWinsAreTopByRatio ==
    \A idm \in FallbackReturned :
        LET recs == idm.recommendations
            n == Len(recs)
        IN  /\ \A i \in 1..n :
                  /\ recs[i].horizon # "24_months_plus"
                  /\ ~(/\ recs[i].impact_score >= Tenths(60)
                       /\ recs[i].effort_score < Tenths(50)
                       /\ recs[i].horizon = "90_days")
            /\ Len(idm.quick_wins) = IF n < 5 THEN n ELSE 5
            /\ \A k \in 1..Len(idm.quick_wins) :
                  \E i \in 1..n : /\ RankByRatio(idm, i) = k - 1
                                  /\ idm.quick_wins[k].recommendation_id = recs[i].id

\* a fallback IDM with 7 recommendations and 5 quick wins, the third of which is the
\* fourth recommendation: the ranking by ratio moved it ahead
C30_Witness ==
    \E idm \in FallbackReturned :
        /\ Len(idm.recommendations) = 7
        /\ Len(idm.quick_wins) = 5
        /\ idm.quick_wins[3].recommendation_id = idm.recommendations[4].id
        /\ idm.quick_wins[4].recommendation_id = idm.recommendations[3].id

====
